---- MODULE Spec2Model ----
(***************************************************************************)
(* IndexORM: typed entities with relations mapped onto a flat key-value    *)
(* store.  The model follows the TypeScript sources: the LocalStorage      *)
(* driver, the DataDriver key and index functions, the Repository write    *)
(* engine with its cascades, the Queryable / ConditionalQueryable read     *)
(* engine and the RelationAttachmentProvider with its Shadow proxy.        *)
(*                                                                         *)
(* JavaScript values are tagged tuples, so that values of different types  *)
(* can be compared: <<"string", s>>, <<"number", n>>, <<"boolean", b>>,    *)
(* <<"array", seq>>, <<"undefined">>, <<"null">>, <<"promise", v>>.        *)
(* An entity instance is a function from property names to values; a       *)
(* property that was never assigned is outside its DOMAIN.                 *)
(***************************************************************************)
EXTENDS Integers, Sequences, FiniteSets, TLC

VARIABLES specifications, localStorage, last, nops

vars == <<specifications, localStorage, last, nops>>

-----------------------------------------------------------------------------
(* Bounds of the model.                                                    *)

\* identifiers are the strings "1" .. "MaxId", as in the readme
MaxId == 2
\* longest collection passed in a relation field of an instance
MaxList == 1
\* number of repository calls (create, update, delete) in one behaviour
MaxOps == 3

-----------------------------------------------------------------------------
(* JavaScript values.                                                      *)

Undefined == <<"undefined">>

Null == <<"null">>

Str(s) == <<"string", s>>

Num(n) == <<"number", n>>

Bool(b) == <<"boolean", b>>

Arr(seq) == <<"array", seq>>

\* the value an async function returns: a promise object wrapping the result
Promise(v) == <<"promise", v>>

\* ToBoolean: the values JavaScript treats as false in a condition
Falsy(v) == v \in {Undefined, Null, Str(""), Num(0), Bool(FALSE)}

Truthy(v) == ~Falsy(v)

\* `${v}` in a template string
TemplateText(v) ==
  CASE v[1] = "string" -> v[2]
    [] v[1] = "number" -> ToString(v[2])
    [] v[1] = "boolean" -> (IF v[2] THEN "true" ELSE "false")
    [] v[1] = "undefined" -> "undefined"
    [] v[1] = "null" -> "null"

\* instance[property]: undefined when the property was never assigned
Prop(instance, property) ==
  IF property \in DOMAIN instance THEN instance[property] ELSE Undefined

\* Object.assign(instance, {[property]: value}) / instance[property] = value
Assign(instance, property, value) ==
  [p \in DOMAIN instance \cup {property} |->
     IF p = property THEN value ELSE instance[p]]

\* Array.prototype.includes on an array of scalars (strict equality)
includes(array, x) == \E i \in 1..Len(array[2]) : array[2][i] = x

\* Array.prototype.push
push(array, x) == Arr(Append(array[2], x))

\* Array.prototype.filter(x => x !== identifier)
filterNot(array, x) == Arr(SelectSeq(array[2], LAMBDA y : y # x))

NoError == "none"

-----------------------------------------------------------------------------
(* LocalStorageDriver: the raw store holds texts.  A text is <<>> (the     *)
(* empty string) or <<"json", v>> (JSON.stringify(v)).                     *)

keyPrefix == "indexorm::"

EmptyText == <<>>

JSONstringify(value) == <<"json", value>>

JSONparse(text) == text[2]

\* localStorage.getItem: null for a missing key
getItem(ls, fullKey) == IF fullKey \in DOMAIN ls THEN ls[fullKey] ELSE Null

\* localStorage.setItem
setItem(ls, fullKey, text) ==
  [k \in DOMAIN ls \cup {fullKey} |-> IF k = fullKey THEN text ELSE ls[k]]

\* localStorage.removeItem
removeItem(ls, fullKey) == [k \in DOMAIN ls \ {fullKey} |-> ls[k]]

\* write(key, value): value ? JSON.stringify(value) : ""
write(ls, key, value) ==
  setItem(ls, keyPrefix \o key,
          IF Truthy(value) THEN JSONstringify(value) ELSE EmptyText)

\* read(key): value && value.length > 0 ? JSON.parse(value) : null
read(ls, key) ==
  LET value == getItem(ls, keyPrefix \o key)
  IN IF value # Null /\ Len(value) > 0 THEN JSONparse(value) ELSE Null

remove(ls, key) == removeItem(ls, keyPrefix \o key)

\* a test that takes every key for a key of the backend
startsWithAnything(key, prefix) == TRUE

\* key.startsWith(prefix)
startsWith(key, prefix) ==
  /\ Len(key) >= Len(prefix)
  /\ SubSeq(key, 1, Len(prefix)) = prefix

\* dumpAll(): the items whose key carries the prefix and whose text is not
\* empty, under their full keys
dumpAll(ls) ==
  [fullKey \in {k \in DOMAIN ls :
                  startsWith(k, keyPrefix) /\ ls[k] # EmptyText} |->
     ls[fullKey]]

\* the loop of loadAll over the keys of data that are left
RECURSIVE loadAllFrom(_, _, _)
loadAllFrom(ls, data, keys) ==
  IF keys = {} THEN ls
  ELSE LET key == CHOOSE k \in keys : TRUE
       IN loadAllFrom(IF startsWith(key, keyPrefix)
                        THEN setItem(ls, key, data[key]) ELSE ls,
                      data, keys \ {key})

\* loadAll(data)
loadAll(ls, data) == loadAllFrom(ls, data, DOMAIN data)

-----------------------------------------------------------------------------
(* ClassSpecificationBuilder and ClassSpecificationRegistry.  A builder is *)
(* [specification, isNameManuallySet, error]: a call that throws sets      *)
(* error, which ends the chain.  A property name that is not set is "".    *)

newBuilder(class) ==
  [specification |->
     [class |-> class, tableName |-> class, identifierProperty |-> "",
      nonRelationalProperties |-> <<>>, relationalProperties |-> <<>>],
   isNameManuallySet |-> FALSE,
   error |-> NoError]

inSeq(seq, x) == \E i \in 1..Len(seq) : seq[i] = x

builderAs(builder, tableName) ==
  IF builder.error # NoError THEN builder
  ELSE IF builder.isNameManuallySet
    THEN [builder EXCEPT !.error = "Cannot set the table name more than once"]
  ELSE [builder EXCEPT !.specification.tableName = tableName,
                       !.isNameManuallySet = TRUE]

hasIdentifier(builder, identifier) ==
  IF builder.error # NoError THEN builder
  ELSE IF builder.specification.identifierProperty # ""
    THEN [builder EXCEPT !.error = "Cannot set multiple identifiers"]
  ELSE [builder EXCEPT
          !.specification.identifierProperty = identifier,
          !.specification.nonRelationalProperties = Append(@, identifier)]

has(builder, property) ==
  IF builder.error # NoError THEN builder
  ELSE IF inSeq(builder.specification.nonRelationalProperties, property)
            /\ property # ""
    THEN [builder EXCEPT !.error = "Cannot register multiple properties"]
  ELSE [builder EXCEPT
          !.specification.nonRelationalProperties = Append(@, property)]

hasRelation(builder, property) ==
  \E i \in 1..Len(builder.specification.relationalProperties) :
    builder.specification.relationalProperties[i].name = property

hasOne(builder, property, relatedClass, correspondingIdentifierProperty) ==
  IF builder.error # NoError THEN builder
  ELSE IF hasRelation(builder, property)
    THEN [builder EXCEPT
            !.error = "Cannot register multiple relational properties"]
  ELSE [builder EXCEPT
          !.specification.relationalProperties =
             Append(@, [name |-> property, class |-> relatedClass,
                        correspondingIdentifierProperty |->
                          correspondingIdentifierProperty,
                        isCollection |-> FALSE]),
          !.specification.nonRelationalProperties =
             IF inSeq(@, correspondingIdentifierProperty) THEN @
             ELSE Append(@, correspondingIdentifierProperty)]

hasMany(builder, property, relatedClass, correspondingIdentifierProperty) ==
  IF builder.error # NoError THEN builder
  ELSE IF hasRelation(builder, property)
    THEN [builder EXCEPT
            !.error = "Cannot register multiple relational properties"]
  ELSE [builder EXCEPT
          !.specification.relationalProperties =
             Append(@, [name |-> property, class |-> relatedClass,
                        correspondingIdentifierProperty |->
                          correspondingIdentifierProperty,
                        isCollection |-> TRUE])]

\* build(): [error, specification]
build(builder) ==
  IF builder.error # NoError
    THEN [error |-> builder.error, specification |-> builder.specification]
  ELSE IF builder.specification.identifierProperty = ""
    THEN [error |-> "Cannot create a specification without an identifier",
          specification |-> builder.specification]
  ELSE [error |-> NoError, specification |-> builder.specification]

\* register without its two tests
registerUnchecked(reg, specification) ==
  [error |-> NoError,
   specifications |-> Assign(reg, specification.class, specification)]

\* register(specification) on the registry reg: [error, specifications]
register(reg, specification) ==
  IF specification.class \in DOMAIN reg
    THEN [error |-> "A Class Specification is already registered",
          specifications |-> reg]
  ELSE IF \E c \in DOMAIN reg : reg[c].tableName = specification.tableName
    THEN [error |-> "Table is already mapped", specifications |-> reg]
  ELSE [error |-> NoError,
        specifications |-> Assign(reg, specification.class, specification)]

\* the object build() returns is the builder's own specification object:
\* what it holds at any later time is what the builder holds then
returnedSpecification(builder) == builder.specification

\* the readme's PersonSpecification, with one plain scalar field
PersonSpecification ==
  build(hasMany(has(hasIdentifier(builderAs(newBuilder("Person"), "person"),
                                  "id"),
                    "age"),
                "address", "Address", "personId")).specification

\* the readme's AddressSpecification, with one plain scalar field
AddressSpecification ==
  build(hasOne(has(has(hasIdentifier(builderAs(newBuilder("Address"),
                                               "address"),
                                     "id"),
                       "city"),
                   "personId"),
               "person", "Person", "personId")).specification

\* an address schema that declares the foreign key as a plain field and no
\* relation back to the person
AddressWithoutPersonSpecification ==
  build(has(has(hasIdentifier(builderAs(newBuilder("Address"), "address"),
                              "id"),
                "city"),
            "personId")).specification

\* the registry after the readme's two register calls
ReadmeRegistry ==
  register(register(<<>>, AddressSpecification).specifications,
           PersonSpecification).specifications

\* the registry in which the child declares no inverse relation
OneSidedRegistry ==
  register(register(<<>>, AddressWithoutPersonSpecification).specifications,
           PersonSpecification).specifications

getSpecificationFor(class) == specifications[class]

getSpecificationByTableName(tableName) ==
  specifications[CHOOSE c \in DOMAIN specifications :
                   specifications[c].tableName = tableName]

-----------------------------------------------------------------------------
(* DataDriver: keys and indexes.  Operations that can throw return         *)
(* [ls, error]; the others return the new store.                           *)

getTableIndexKey(tableName) ==
  ":" \o ":index-of:" \o ":" \o tableName \o "-identifiers:" \o ":"

getRelationIndexKey(destinationTableName, sourceTableName, destinationIdPropertyNameOnSourceTable, destinationIdOnSourceTable) ==
  ":" \o ":index-of:" \o ":" \o sourceTableName \o "-identifiers:"
      \o ":which-has-one:" \o ":" \o destinationTableName \o ":"
      \o ":as:" \o ":" \o destinationIdPropertyNameOnSourceTable \o ":"
      \o ":with-identifier:" \o ":"
      \o TemplateText(destinationIdOnSourceTable) \o ":" \o ":"

getDataKey(tableName, index, columnName) ==
  tableName \o ":" \o TemplateText(index) \o ":" \o columnName \o ";"

\* index || []
getTableIndex(ls, tableName) ==
  LET index == read(ls, getTableIndexKey(tableName))
  IN IF Truthy(index) THEN index ELSE Arr(<<>>)

\* the array read, or null
getRelationIndex(ls, destinationTableName, sourceTableName, destinationIdPropertyNameOnSourceTable, destinationIdOnSourceTable) ==
  read(ls, getRelationIndexKey(destinationTableName, sourceTableName,
                               destinationIdPropertyNameOnSourceTable,
                               destinationIdOnSourceTable))

\* addTableIndex without the duplicate test: the identifier is always pushed
addTableIndexUnchecked(ls, tableName, identifier) ==
  LET indexKey == getTableIndexKey(tableName)
      index == read(ls, indexKey)
  IN IF Falsy(index)
       THEN [ls |-> write(ls, indexKey, Arr(<<identifier>>)), error |-> NoError]
     ELSE [ls |-> write(ls, indexKey, push(index, identifier)),
           error |-> NoError]

addTableIndex(ls, tableName, identifier) ==
  LET indexKey == getTableIndexKey(tableName)
      index == read(ls, indexKey)
  IN IF Falsy(index)
       THEN [ls |-> write(ls, indexKey, Arr(<<identifier>>)), error |-> NoError]
     ELSE IF includes(index, identifier)
       THEN [ls |-> ls, error |-> "Index constraint violation"]
     ELSE [ls |-> write(ls, indexKey, push(index, identifier)),
           error |-> NoError]

\* addRelationIndex with unshift in place of push: the newest comes first
addRelationIndexUnshift(ls, destinationTableName, sourceTableName, destinationIdPropertyNameOnSourceTable, destinationIdOnSourceTable, identifier) ==
  LET relationIndexKey ==
        getRelationIndexKey(destinationTableName, sourceTableName,
                            destinationIdPropertyNameOnSourceTable,
                            destinationIdOnSourceTable)
      relationIndex == read(ls, relationIndexKey)
  IN IF Falsy(relationIndex)
       THEN write(ls, relationIndexKey, Arr(<<identifier>>))
     ELSE IF includes(relationIndex, identifier)
       THEN ls
     ELSE write(ls, relationIndexKey,
                Arr(<<identifier>> \o relationIndex[2]))

addRelationIndex(ls, destinationTableName, sourceTableName, destinationIdPropertyNameOnSourceTable, destinationIdOnSourceTable, identifier) ==
  LET relationIndexKey ==
        getRelationIndexKey(destinationTableName, sourceTableName,
                            destinationIdPropertyNameOnSourceTable,
                            destinationIdOnSourceTable)
      relationIndex == read(ls, relationIndexKey)
  IN IF Falsy(relationIndex)
       THEN write(ls, relationIndexKey, Arr(<<identifier>>))
     ELSE IF includes(relationIndex, identifier)
       THEN ls
     ELSE write(ls, relationIndexKey, push(relationIndex, identifier))

removeTableIndex(ls, tableName, identifier) ==
  LET indexKey == getTableIndexKey(tableName)
      index == read(ls, indexKey)
  IN IF Falsy(index) THEN ls
     ELSE write(ls, indexKey, filterNot(index, identifier))

removeRelationIndex(ls, destinationTableName, sourceTableName, destinationIdPropertyNameOnSourceTable, destinationIdOnSourceTable, identifier) ==
  LET relationIndexKey ==
        getRelationIndexKey(destinationTableName, sourceTableName,
                            destinationIdPropertyNameOnSourceTable,
                            destinationIdOnSourceTable)
      relationIndex == read(ls, relationIndexKey)
  IN IF Falsy(relationIndex) THEN ls
     ELSE write(ls, relationIndexKey, filterNot(relationIndex, identifier))

\* removeRelationIndexRecord that leaves the record in the store
removeRelationIndexRecordKept(ls, destinationTableName, sourceTableName, destinationIdPropertyNameOnSourceTable, destinationIdOnSourceTable) ==
  ls

removeRelationIndexRecord(ls, destinationTableName, sourceTableName, destinationIdPropertyNameOnSourceTable, destinationIdOnSourceTable) ==
  remove(ls, getRelationIndexKey(destinationTableName, sourceTableName,
                                 destinationIdPropertyNameOnSourceTable,
                                 destinationIdOnSourceTable))

-----------------------------------------------------------------------------
(* Repository: the write engine.  create, update and the cascade return    *)
(* [ls, error] (the cascade also the instance, which it may have changed); *)
(* an error ends the call at once and keeps the writes made so far.        *)

\* the loop that writes every non-relational property, from the i-th on
RECURSIVE writeProperties(_, _, _, _, _)
writeProperties(ls, classSpecification, instance, identifierValue, i) ==
  IF i > Len(classSpecification.nonRelationalProperties) THEN ls
  ELSE LET property == classSpecification.nonRelationalProperties[i]
           dataKey == getDataKey(classSpecification.tableName,
                                 identifierValue, property)
           dataToStore == IF Prop(instance, property) = Undefined
                            THEN Null ELSE Prop(instance, property)
       IN writeProperties(write(ls, dataKey, dataToStore),
                          classSpecification, instance, identifierValue, i + 1)

\* the loop that removes every non-relational property, from the i-th on
RECURSIVE removeProperties(_, _, _, _)
removeProperties(ls, classSpecification, identifierValue, i) ==
  IF i > Len(classSpecification.nonRelationalProperties) THEN ls
  ELSE removeProperties(
         remove(ls, getDataKey(classSpecification.tableName, identifierValue,
                               classSpecification.nonRelationalProperties[i])),
         classSpecification, identifierValue, i + 1)

\* the cascade without the assignment: the member is upserted as passed
withSourceIdUnset(relatedData, sourceIdPropertyNameOnRelatedTable, idOfSource) ==
  relatedData

\* relatedData[sourceIdPropertyNameOnRelatedTable] = idOfSource
withSourceId(relatedData, sourceIdPropertyNameOnRelatedTable, idOfSource) ==
  Assign(relatedData, sourceIdPropertyNameOnRelatedTable, idOfSource)

\* idOnSource always taken from relatedData, whatever the instance carries
idOnSourceDerived(instance, fk, relatedData, relatedClassSpecification) ==
  Prop(relatedData, relatedClassSpecification.identifierProperty)

\* idOnSource without the derivation: the instance's own foreign key
idOnSourceGiven(instance, fk, relatedData, relatedClassSpecification) ==
  Prop(instance, fk)

\* idOnSource when the instance carries relatedData: the foreign key of the
\* instance, or, when that is not set, the identifier of relatedData
idOnSourceWith(instance, fk, relatedData, relatedClassSpecification) ==
  IF Falsy(Prop(instance, fk))
    THEN Prop(relatedData, relatedClassSpecification.identifierProperty)
    ELSE Prop(instance, fk)

RECURSIVE create(_, _, _)
RECURSIVE update(_, _, _)
RECURSIVE createOrUpdate(_, _, _)
RECURSIVE handleRelationalProperties(_, _, _, _, _)
RECURSIVE cascadeCollection(_, _, _, _, _)

createOrUpdate(ls, class, instance) ==
  LET classSpecification == getSpecificationFor(class)
      index == getTableIndex(ls, classSpecification.tableName)
      identifierValue == Prop(instance, classSpecification.identifierProperty)
  IN IF includes(index, identifierValue)
       THEN update(ls, class, instance)
       ELSE create(ls, class, instance)

create(ls, class, instance) ==
  LET classSpecification == getSpecificationFor(class)
      identifierValue == Prop(instance, classSpecification.identifierProperty)
      handled == handleRelationalProperties(ls, classSpecification, instance,
                                            identifierValue, 1)
      added == addTableIndex(handled.ls, classSpecification.tableName,
                             identifierValue)
  IN IF handled.error # NoError
       THEN [ls |-> handled.ls, error |-> handled.error]
     ELSE IF added.error # NoError
       THEN added
     ELSE [ls |-> writeProperties(added.ls, classSpecification,
                                  handled.instance, identifierValue, 1),
           error |-> NoError]

\* update that clears the relation-index record of the instance where its
\* collection is empty or absent
updateClearing(ls, class, instance) ==
  LET classSpecification == getSpecificationFor(class)
      identifierValue == Prop(instance, classSpecification.identifierProperty)
      handled == handleRelationalProperties(ls, classSpecification, instance,
                                            identifierValue, 1)
      written == writeProperties(handled.ls, classSpecification,
                                 handled.instance, identifierValue, 1)
      cleared ==
        IF \E i \in 1..Len(classSpecification.relationalProperties) :
             LET relationalProperty == classSpecification.relationalProperties[i]
             IN /\ relationalProperty.isCollection
                /\ IF relationalProperty.name \in DOMAIN instance
                     THEN Len(instance[relationalProperty.name]) = 0
                     ELSE TRUE
          THEN removeRelationIndexRecord(written, classSpecification.tableName,
                                         "address", "personId", identifierValue)
          ELSE written
  IN IF handled.error # NoError
       THEN [ls |-> handled.ls, error |-> handled.error]
     ELSE [ls |-> cleared, error |-> NoError]

update(ls, class, instance) ==
  LET classSpecification == getSpecificationFor(class)
      identifierValue == Prop(instance, classSpecification.identifierProperty)
      handled == handleRelationalProperties(ls, classSpecification, instance,
                                            identifierValue, 1)
  IN IF handled.error # NoError
       THEN [ls |-> handled.ls, error |-> handled.error]
     ELSE [ls |-> writeProperties(handled.ls, classSpecification,
                                  handled.instance, identifierValue, 1),
           error |-> NoError]

\* the loop over relatedDataList of a collection relation, from the j-th on
cascadeCollection(ls, classSpecification, relationalProperty, instance, j) ==
  LET relatedDataList == instance[relationalProperty.name]
      idOfSource == Prop(instance, classSpecification.identifierProperty)
      relatedData ==
        withSourceId(relatedDataList[j],
                     relationalProperty.correspondingIdentifierProperty,
                     idOfSource)
      upserted == createOrUpdate(ls, relationalProperty.class, relatedData)
  IN IF j > Len(relatedDataList) THEN [ls |-> ls, error |-> NoError]
     ELSE IF upserted.error # NoError THEN upserted
     ELSE cascadeCollection(upserted.ls, classSpecification,
                            relationalProperty, instance, j + 1)

\* the loop over the relational properties, from the i-th on
handleRelationalProperties(ls, classSpecification, instance, identifier, i) ==
  IF i > Len(classSpecification.relationalProperties)
    THEN [ls |-> ls, error |-> NoError, instance |-> instance]
  ELSE
    LET relationalProperty == classSpecification.relationalProperties[i]
        relatedClassSpecification ==
          getSpecificationFor(relationalProperty.class)
        fk == relationalProperty.correspondingIdentifierProperty
    IN IF ~relationalProperty.isCollection
         THEN
           LET hasRelatedData == relationalProperty.name \in DOMAIN instance
               relatedData == instance[relationalProperty.name]
               derive == hasRelatedData /\ Falsy(Prop(instance, fk))
               idOnSource ==
                 IF hasRelatedData
                   THEN idOnSourceWith(instance, fk, relatedData,
                                       relatedClassSpecification)
                   ELSE Prop(instance, fk)
               assigned ==
                 IF derive THEN Assign(instance, fk, idOnSource) ELSE instance
               upserted ==
                 IF hasRelatedData
                   THEN createOrUpdate(ls, relationalProperty.class,
                                       relatedData)
                   ELSE [ls |-> ls, error |-> NoError]
           IN IF upserted.error # NoError
                THEN [ls |-> upserted.ls, error |-> upserted.error,
                      instance |-> assigned]
              ELSE handleRelationalProperties(
                     addRelationIndex(upserted.ls,
                                      relatedClassSpecification.tableName,
                                      classSpecification.tableName,
                                      fk, idOnSource, identifier),
                     classSpecification, assigned, identifier, i + 1)
         ELSE
           LET empty == \/ relationalProperty.name \notin DOMAIN instance
                        \/ Len(instance[relationalProperty.name]) = 0
               cascaded ==
                 IF empty THEN [ls |-> ls, error |-> NoError]
                 ELSE cascadeCollection(ls, classSpecification,
                                        relationalProperty, instance, 1)
           IN IF cascaded.error # NoError
                THEN [ls |-> cascaded.ls, error |-> cascaded.error,
                      instance |-> instance]
              ELSE handleRelationalProperties(cascaded.ls, classSpecification,
                                              instance, identifier, i + 1)

\* the loop over the relational properties in delete, from the i-th on
RECURSIVE removeRelations(_, _, _, _, _)
removeRelations(ls, classSpecification, instance, identifierValue, i) ==
  IF i > Len(classSpecification.relationalProperties) THEN ls
  ELSE
    LET relationalProperty == classSpecification.relationalProperties[i]
        relatedTableName ==
          getSpecificationFor(relationalProperty.class).tableName
        tableName == classSpecification.tableName
        relatedPropertyIdName ==
          relationalProperty.correspondingIdentifierProperty
        removed ==
          IF ~relationalProperty.isCollection
            THEN removeRelationIndex(ls, relatedTableName, tableName,
                                     relatedPropertyIdName,
                                     Prop(instance, relatedPropertyIdName),
                                     identifierValue)
            ELSE removeRelationIndexRecord(ls, tableName, relatedTableName,
                                           relatedPropertyIdName,
                                           identifierValue)
    IN removeRelations(removed, classSpecification, instance,
                       identifierValue, i + 1)

\* delete without the test of the index: the removals are always made
deleteUnguarded(ls, class, instance) ==
  LET classSpecification == getSpecificationFor(class)
      identifierValue == Prop(instance, classSpecification.identifierProperty)
  IN removeRelations(
       removeProperties(
         removeTableIndex(ls, classSpecification.tableName, identifierValue),
         classSpecification, identifierValue, 1),
       classSpecification, instance, identifierValue, 1)

\* Repository.delete: never throws, returns the new store
delete(ls, class, instance) ==
  LET classSpecification == getSpecificationFor(class)
      tableName == classSpecification.tableName
      index == getTableIndex(ls, tableName)
      identifierValue == Prop(instance, classSpecification.identifierProperty)
  IN IF ~includes(index, identifierValue) THEN ls
     ELSE removeRelations(
            removeProperties(
              removeTableIndex(ls, tableName, identifierValue),
              classSpecification, identifierValue, 1),
            classSpecification, instance, identifierValue, 1)

-----------------------------------------------------------------------------
(* Shadow: the proxy returned by a fetch.  source is the target object,    *)
(* excludedNavigationalProperties the relation names whose read throws.    *)

ShadowFor(source, navigationalProperties) ==
  [source |-> source, excludedNavigationalProperties |-> navigationalProperties]

\* the get trap: [error, value]
ShadowGet(shadow, prop) ==
  IF prop \in shadow.excludedNavigationalProperties
    THEN [error |-> "not loaded yet", value |-> Undefined]
    ELSE [error |-> NoError, value |-> Prop(shadow.source, prop)]

\* a set trap that assigns and keeps the guard
ShadowSetGuarded(shadow, prop, value) ==
  [source |-> Assign(shadow.source, prop, value),
   excludedNavigationalProperties |-> shadow.excludedNavigationalProperties]

\* the set trap
ShadowSet(shadow, prop, value) ==
  [source |-> Assign(shadow.source, prop, value),
   excludedNavigationalProperties |->
     shadow.excludedNavigationalProperties \ {prop}]

-----------------------------------------------------------------------------
(* Queryable and RelationAttachmentProvider: the read engine.  An include  *)
(* map is a sequence of [key, map] entries in insertion order.  A fetch    *)
(* returns [error, value].                                                 *)

\* includeMap after include(key) on a fresh queryable
include(key) == << [key |-> key, map |-> <<>>] >>

\* includeMap after include(key).thenInclude(then)
includeThenInclude(key, then) == << [key |-> key, map |-> include(then)] >>

relationNames(classSpecification) ==
  {classSpecification.relationalProperties[i].name :
     i \in 1..Len(classSpecification.relationalProperties)}

\* a lookup that takes any key for the name of a relation
findRelationOfAnyName(classSpecification, includeKey) ==
  {classSpecification.relationalProperties[i] :
     i \in 1..Len(classSpecification.relationalProperties)}

\* relationalProperties.find(x => x.name === includeKey), as a set
findRelation(classSpecification, includeKey) ==
  {classSpecification.relationalProperties[i] :
     i \in {j \in 1..Len(classSpecification.relationalProperties) :
              classSpecification.relationalProperties[j].name = includeKey}}

\* the loop of _getById that reads the non-relational properties
RECURSIVE readProperties(_, _, _, _, _)
readProperties(ls, classSpecification, id, data, i) ==
  IF i > Len(classSpecification.nonRelationalProperties) THEN data
  ELSE LET property == classSpecification.nonRelationalProperties[i]
           propertyValue ==
             read(ls, getDataKey(classSpecification.tableName, id, property))
       IN readProperties(ls, classSpecification, id,
                         IF Falsy(propertyValue) THEN data
                         ELSE Assign(data, property, propertyValue),
                         i + 1)

RECURSIVE getByIdInternal(_, _, _, _, _)
RECURSIVE getByIdsFrom(_, _, _, _, _, _)
RECURSIVE attachIncludesAndGet(_, _, _, _, _)

\* Queryable._getById(id, skipIndexCheck) of a queryable with this includeMap
getByIdInternal(ls, class, id, skipIndexCheck, includeMap) ==
  LET classSpecification == getSpecificationFor(class)
      indexes == getTableIndex(ls, classSpecification.tableName)
  IN IF ~skipIndexCheck /\ ~includes(indexes, id)
       THEN [error |-> "No data found for id", value |-> Undefined]
       ELSE attachIncludesAndGet(
              ls,
              ShadowFor(readProperties(ls, classSpecification, id, <<>>, 1),
                        relationNames(classSpecification)),
              classSpecification, includeMap, 1)

\* the loop `for (const id of ids) result.push(await this._getById(id, true))`
getByIdsFrom(ls, class, ids, includeMap, i, result) ==
  IF i > Len(ids) THEN [error |-> NoError, value |-> Arr(result)]
  ELSE LET data == getByIdInternal(ls, class, ids[i], TRUE, includeMap)
       IN IF data.error # NoError THEN data
          ELSE getByIdsFrom(ls, class, ids, includeMap, i + 1,
                            Append(result, data.value))

\* getByIds without the test for missing ids
getByIdsUnchecked(ls, class, ids, includeMap) ==
  getByIdsFrom(ls, class, ids[2], includeMap, 1, <<>>)

\* Queryable.getByIds(ids)
getByIds(ls, class, ids, includeMap) ==
  LET classSpecification == getSpecificationFor(class)
      indexes == getTableIndex(ls, classSpecification.tableName)
  IN IF \E i \in 1..Len(ids[2]) : ~includes(indexes, ids[2][i])
       THEN [error |-> "One or more ids are missing", value |-> Undefined]
       ELSE getByIdsFrom(ls, class, ids[2], includeMap, 1, <<>>)

\* Queryable.getAll()
getAll(ls, class, includeMap) ==
  getByIdsFrom(ls, class,
               getTableIndex(ls, getSpecificationFor(class).tableName)[2],
               includeMap, 1, <<>>)

\* Queryable.getById(id)
getById(ls, class, id, includeMap) ==
  getByIdInternal(ls, class, id, FALSE, includeMap)

\* the loop over the keys of includeContext, from the k-th on; attachedData
\* is the shadow built so far, attachedData.source the scalar record `data`
attachIncludesAndGet(ls, attachedData, classSpecification, includeContext, k) ==
  IF k > Len(includeContext)
    THEN [error |-> NoError, value |-> attachedData]
  ELSE
    LET includeKey == includeContext[k].key
        found == findRelation(classSpecification, includeKey)
        relationalProperty == CHOOSE x \in found : TRUE
        data == attachedData.source
        fk == relationalProperty.correspondingIdentifierProperty
    IN IF found = {}
         THEN [error |-> "Invalid include key", value |-> Undefined]
       ELSE IF relationalProperty.isCollection
         THEN
           LET idsToFetch ==
                 getRelationIndex(
                   ls, classSpecification.tableName,
                   getSpecificationFor(relationalProperty.class).tableName,
                   fk, Prop(data, classSpecification.identifierProperty))
               fetched ==
                 getByIds(ls, relationalProperty.class,
                          IF Truthy(idsToFetch) THEN idsToFetch ELSE Arr(<<>>),
                          includeContext[k].map)
           IN IF fetched.error # NoError THEN fetched
              ELSE attachIncludesAndGet(
                     ls, ShadowSet(attachedData, includeKey, fetched.value),
                     classSpecification, includeContext, k + 1)
       ELSE IF fk \notin DOMAIN data
         THEN attachIncludesAndGet(ls, attachedData, classSpecification,
                                   includeContext, k + 1)
       ELSE IF Falsy(data[fk])
         THEN attachIncludesAndGet(
                ls, ShadowSet(attachedData, includeKey, Null),
                classSpecification, includeContext, k + 1)
       ELSE
         LET fetched == getByIdInternal(ls, relationalProperty.class,
                                        data[fk], TRUE, includeContext[k].map)
         IN IF fetched.error # NoError THEN fetched
            ELSE attachIncludesAndGet(
                   ls, ShadowSet(attachedData, includeKey, fetched.value),
                   classSpecification, includeContext, k + 1)

-----------------------------------------------------------------------------
(* ConditionalQueryable.  A condition is [key, test]; the test, a function *)
(* of the caller, is given by the set of values it accepts.                *)

test(condition, value) == value \in condition.test

\* _checkConditionByIndex, from the k-th condition on
RECURSIVE checkConditionByIndex(_, _, _, _, _)
checkConditionByIndex(ls, classSpecification, conditions, index, k) ==
  IF k > Len(conditions) THEN TRUE
  ELSE LET propertyValue ==
             read(ls, getDataKey(classSpecification.tableName, index,
                                 conditions[k].key))
       IN IF ~test(conditions[k], propertyValue) THEN FALSE
          ELSE checkConditionByIndex(ls, classSpecification, conditions,
                                     index, k + 1)

\* indexes.filter(async index => await this._checkConditionByIndex(index)):
\* filter keeps an element when the callback's return value is truthy, and
\* the callback, being async, returns a promise
filterPassingIndexes(ls, classSpecification, conditions, indexes) ==
  Arr(SelectSeq(indexes[2],
                LAMBDA index :
                  Truthy(Promise(checkConditionByIndex(
                                   ls, classSpecification, conditions,
                                   index, 1)))))

\* ConditionalQueryable.getAll()
conditionalGetAll(ls, class, conditions, includeMap) ==
  LET classSpecification == getSpecificationFor(class)
      indexes == getTableIndex(ls, classSpecification.tableName)
      passingIndexes ==
        filterPassingIndexes(ls, classSpecification, conditions, indexes)
  IN getByIdsFrom(ls, class, passingIndexes[2], includeMap, 1, <<>>)

\* ConditionalQueryable.single()
single(ls, class, conditions, includeMap) ==
  LET classSpecification == getSpecificationFor(class)
      indexes == getTableIndex(ls, classSpecification.tableName)
      passingIndexes ==
        filterPassingIndexes(ls, classSpecification, conditions, indexes)
  IN IF Len(passingIndexes[2]) > 1
       THEN [error |-> "More than one record found", value |-> Undefined]
     ELSE IF Len(passingIndexes[2]) = 0
       THEN [error |-> "No record found", value |-> Undefined]
     ELSE getByIdInternal(ls, class, passingIndexes[2][1], TRUE, includeMap)

\* ConditionalQueryable.count()
count(ls, class, conditions) ==
  LET classSpecification == getSpecificationFor(class)
      indexes == getTableIndex(ls, classSpecification.tableName)
  IN Len(filterPassingIndexes(ls, classSpecification, conditions,
                              indexes)[2])

\* the loop without the early return: every identifier is evaluated
RECURSIVE firstPassingNoStop(_, _, _, _, _)
firstPassingNoStop(ls, classSpecification, conditions, indexes, checked) ==
  LET passing ==
        SelectSeq(indexes[2],
                  LAMBDA index :
                    checkConditionByIndex(ls, classSpecification, conditions,
                                          index, 1))
  IN IF passing = <<>>
       THEN [found |-> FALSE, index |-> Undefined, checked |-> indexes[2]]
       ELSE [found |-> TRUE, index |-> passing[1], checked |-> indexes[2]]

\* the loop of first() and any(): the identifiers whose conditions were
\* evaluated, in order, up to the first that passes (found) or all of them
RECURSIVE firstPassing(_, _, _, _, _)
firstPassing(ls, classSpecification, conditions, indexes, checked) ==
  IF Len(checked) = Len(indexes[2])
    THEN [found |-> FALSE, index |-> Undefined, checked |-> checked]
  ELSE LET index == indexes[2][Len(checked) + 1]
           passesConditions ==
             checkConditionByIndex(ls, classSpecification, conditions, index, 1)
       IN IF passesConditions
            THEN [found |-> TRUE, index |-> index,
                  checked |-> Append(checked, index)]
            ELSE firstPassing(ls, classSpecification, conditions, indexes,
                              Append(checked, index))

\* ConditionalQueryable.first(): [error, value, checked]
first(ls, class, conditions, includeMap) ==
  LET classSpecification == getSpecificationFor(class)
      indexes == getTableIndex(ls, classSpecification.tableName)
      loop == firstPassing(ls, classSpecification, conditions, indexes, <<>>)
      got == getByIdInternal(ls, class, loop.index, TRUE, includeMap)
  IN IF loop.found
       THEN [error |-> got.error, value |-> got.value, checked |-> loop.checked]
       ELSE [error |-> NoError, value |-> Null, checked |-> loop.checked]

\* ConditionalQueryable.any(): [value, checked]
any(ls, class, conditions) ==
  LET classSpecification == getSpecificationFor(class)
      indexes == getTableIndex(ls, classSpecification.tableName)
      loop == firstPassing(ls, classSpecification, conditions, indexes, <<>>)
  IN [value |-> loop.found, checked |-> loop.checked]

\* the key loop of select with the `if (!propertyValue) continue` of _getById
RECURSIVE selectDataSkippingEmpty(_, _, _, _, _, _)
selectDataSkippingEmpty(ls, classSpecification, index, keys, data, i) ==
  IF i > Len(keys) THEN data
  ELSE LET propertyValue ==
             read(ls, getDataKey(classSpecification.tableName, index, keys[i]))
       IN selectDataSkippingEmpty(
            ls, classSpecification, index, keys,
            IF Falsy(propertyValue) THEN data
            ELSE Assign(data, keys[i], propertyValue),
            i + 1)

\* the key loop of select: data[key] = read(dataKeyForProperty)
RECURSIVE selectData(_, _, _, _, _, _)
selectData(ls, classSpecification, index, keys, data, i) ==
  IF i > Len(keys) THEN data
  ELSE selectData(
         ls, classSpecification, index, keys,
         Assign(data, keys[i],
                read(ls, getDataKey(classSpecification.tableName, index,
                                    keys[i]))),
         i + 1)

\* the second loop of select: attachIncludesAndGet on every partial record
RECURSIVE selectAttach(_, _, _, _, _, _)
selectAttach(ls, classSpecification, includeMap, result, j, attachedObjects) ==
  IF j > Len(result) THEN [error |-> NoError, value |-> Arr(attachedObjects)]
  ELSE LET attachedData ==
             attachIncludesAndGet(
               ls, ShadowFor(result[j], relationNames(classSpecification)),
               classSpecification, includeMap, 1)
       IN IF attachedData.error # NoError THEN attachedData
          ELSE selectAttach(ls, classSpecification, includeMap, result, j + 1,
                            Append(attachedObjects, attachedData.value))

\* ConditionalQueryable.select(...keys)
select(ls, class, conditions, keys, includeMap) ==
  LET classSpecification == getSpecificationFor(class)
      indexes == getTableIndex(ls, classSpecification.tableName)
      passingIndexes ==
        SelectSeq(indexes[2],
                  LAMBDA index :
                    checkConditionByIndex(ls, classSpecification, conditions,
                                          index, 1))
      result ==
        [j \in 1..Len(passingIndexes) |->
           selectData(ls, classSpecification, passingIndexes[j], keys, <<>>, 1)]
  IN selectAttach(ls, classSpecification, includeMap, result, 1, <<>>)

-----------------------------------------------------------------------------
(* Queryable.include and thenInclude.  A queryable is [includeMap,         *)
(* currentIncludePointer]; the queryable a call returns shares the include *)
(* map of the one it was called on and gets its pointer, so one value      *)
(* stands for both.  The pointer "r1::r2" is the sequence <<r1, r2>> (""   *)
(* is <<>>): relation names hold no "::", so split("::") gives back the    *)
(* names that were joined.  A call returns [error, queryable].             *)

newQueryable == [includeMap |-> <<>>, currentIncludePointer |-> <<>>]

\* map[key] === undefined
mapLacks(map, key) == \A i \in 1..Len(map) : map[i].key # key

\* map[key]
mapGet(map, key) == (CHOOSE i \in 1..Len(map) : map[i].key = key)

\* map[key][child] = {} when map[key][child] is undefined
mapAddUnder(map, key, child) ==
  [i \in 1..Len(map) |->
     IF map[i].key = key /\ mapLacks(map[i].map, child)
       THEN [key |-> key,
             map |-> Append(map[i].map, [key |-> child, map |-> <<>>])]
       ELSE map[i]]

\* Queryable.include(key)
queryableInclude(queryable, key) ==
  [error |-> NoError,
   queryable |->
     [includeMap |->
        IF mapLacks(queryable.includeMap, key)
          THEN Append(queryable.includeMap, [key |-> key, map |-> <<>>])
          ELSE queryable.includeMap,
      currentIncludePointer |-> <<key>>]]

\* Queryable.thenInclude(key): every element of the pointer path is looked
\* up in this.includeMap itself, and the last one found is the context
thenInclude(queryable, key) ==
  LET currentIncludePath == queryable.currentIncludePointer
  IN IF currentIncludePath = <<>>
       THEN [error |-> "Cannot call thenInclude without calling include first",
             queryable |-> queryable]
     ELSE IF \E i \in 1..Len(currentIncludePath) :
               mapLacks(queryable.includeMap, currentIncludePath[i])
       THEN [error |-> "Something went wrong while fetching include map context",
             queryable |-> queryable]
     ELSE [error |-> NoError,
           queryable |->
             [includeMap |->
                mapAddUnder(queryable.includeMap,
                            currentIncludePath[Len(currentIncludePath)], key),
              currentIncludePointer |-> Append(currentIncludePath, key)]]

-----------------------------------------------------------------------------
(* The calls a program makes: their arguments are drawn from these sets.   *)

Ids == {Str(ToString(n)) : n \in 1..MaxId}

\* a person without relations; age 0 is a number JavaScript treats as false
PersonLeaves == {[id |-> i, age |-> a] : i \in Ids, a \in {Num(30), Num(0)}}

\* an address without a related object: city and personId set or not
AddressLeaves ==
  LET bare == {[id |-> i] : i \in Ids}
      withCity == bare \cup {Assign(a, "city", Str("Damak")) : a \in bare}
  IN withCity \cup {Assign(a, "personId", i) : a \in withCity, i \in Ids}

\* an address that carries its person, with or without the foreign key
AddressesWithPerson ==
  {Assign(a, "person", [id |-> i, age |-> Num(30)]) :
     a \in {x \in AddressLeaves : "city" \in DOMAIN x}, i \in Ids}

\* the non-empty lists of at most n members
RECURSIVE ListsUpTo(_, _)
ListsUpTo(members, n) ==
  IF n = 0 THEN {}
  ELSE {<<m>> : m \in members}
       \cup {Append(l, m) : l \in ListsUpTo(members, n - 1), m \in members}

\* a person that carries a populated address collection
PersonsWithAddresses ==
  {Assign([id |-> i, age |-> Num(30)], "address", l) :
     i \in Ids,
     l \in ListsUpTo({[id |-> j, city |-> Str("Damak")] : j \in Ids}, MaxList)}

Instances(class) ==
  IF class = "Person" THEN PersonLeaves \cup PersonsWithAddresses
  ELSE AddressLeaves \cup AddressesWithPerson

\* the instances passed to delete: the identifier and the foreign key matter
DeleteInstances(class) ==
  IF class = "Person" THEN {[id |-> i] : i \in Ids}
  ELSE {a \in AddressLeaves : "city" \notin DOMAIN a}

Classes == {"Person", "Address"}

\* the include maps built by include / thenInclude chains
IncludeMaps(class) ==
  IF class = "Person"
    THEN {<<>>, include("address"), includeThenInclude("address", "person")}
    ELSE {<<>>, include("person")}

\* where(key, predicate) chains on the address table
ConditionLists ==
  LET isDamak == [key |-> "city", test |-> {Str("Damak")}]
      noCity == [key |-> "city", test |-> {Null}]
      ofFirst == [key |-> "personId", test |-> {Str("1")}]
  IN {<<isDamak>>, <<noCity>>, <<isDamak, ofFirst>>}

-----------------------------------------------------------------------------
(* The state: specifications is the registry (class name -> schema),       *)
(* localStorage the raw store (full key -> text), last the call that was   *)
(* made last with its outcome (and, for a write, the store it started      *)
(* from), nops the number of calls made.                                   *)

Init ==
  /\ specifications = ReadmeRegistry
  /\ localStorage = <<>>
  /\ last = [op |-> "init"]
  /\ nops = 0

Create(class, instance) ==
  /\ nops < MaxOps
  /\ LET done == create(localStorage, class, instance)
     IN /\ localStorage' = done.ls
        /\ last' = [op |-> "create", class |-> class, instance |-> instance,
                    error |-> done.error, before |-> localStorage]
  /\ nops' = nops + 1
  /\ UNCHANGED specifications

Update(class, instance) ==
  /\ nops < MaxOps
  /\ LET done == update(localStorage, class, instance)
     IN /\ localStorage' = done.ls
        /\ last' = [op |-> "update", class |-> class, instance |-> instance,
                    error |-> done.error, before |-> localStorage]
  /\ nops' = nops + 1
  /\ UNCHANGED specifications

Delete(class, instance) ==
  /\ nops < MaxOps
  /\ localStorage' = delete(localStorage, class, instance)
  /\ last' = [op |-> "delete", class |-> class, instance |-> instance,
              error |-> NoError, before |-> localStorage]
  /\ nops' = nops + 1
  /\ UNCHANGED specifications

GetById(class, id, includeMap) ==
  /\ nops < MaxOps
  /\ LET got == getById(localStorage, class, id, includeMap)
     IN last' = [op |-> "getById", class |-> class, id |-> id,
                 includeMap |-> includeMap,
                 error |-> got.error, value |-> got.value]
  /\ nops' = nops + 1
  /\ UNCHANGED <<specifications, localStorage>>

ConditionalGetAll(class, conditions) ==
  /\ nops < MaxOps
  /\ LET got == conditionalGetAll(localStorage, class, conditions, <<>>)
     IN last' = [op |-> "where.getAll", class |-> class,
                 conditions |-> conditions,
                 error |-> got.error, value |-> got.value]
  /\ nops' = nops + 1
  /\ UNCHANGED <<specifications, localStorage>>

Single(class, conditions) ==
  /\ nops < MaxOps
  /\ LET got == single(localStorage, class, conditions, <<>>)
     IN last' = [op |-> "where.single", class |-> class,
                 conditions |-> conditions,
                 error |-> got.error, value |-> got.value]
  /\ nops' = nops + 1
  /\ UNCHANGED <<specifications, localStorage>>

Count(class, conditions) ==
  /\ nops < MaxOps
  /\ last' = [op |-> "where.count", class |-> class,
              conditions |-> conditions, error |-> NoError,
              value |-> count(localStorage, class, conditions)]
  /\ nops' = nops + 1
  /\ UNCHANGED <<specifications, localStorage>>

Next ==
  \/ \E class \in Classes : \E instance \in Instances(class) :
       Create(class, instance)
  \/ \E class \in Classes : \E instance \in Instances(class) :
       Update(class, instance)
  \/ \E class \in Classes : \E instance \in DeleteInstances(class) :
       Delete(class, instance)
  \/ \E class \in Classes : \E id \in Ids :
       \E includeMap \in IncludeMaps(class) : GetById(class, id, includeMap)
  \/ \E conditions \in ConditionLists : ConditionalGetAll("Address", conditions)
  \/ \E conditions \in ConditionLists : Single("Address", conditions)
  \/ \E conditions \in ConditionLists : Count("Address", conditions)

Spec == Init /\ [][Next]_vars

-----------------------------------------------------------------------------
(* Two further specifications.  SpecSchemas starts from either registry    *)
(* (the child schema declares the inverse relation, or it does not).       *)
(* SpecScenario is the readme's scenario: owners are created, and children *)
(* are created once each through the child repository with the foreign key *)
(* of an existing owner.                                                   *)

InitSchemas ==
  /\ specifications \in {ReadmeRegistry, OneSidedRegistry}
  /\ localStorage = <<>>
  /\ last = [op |-> "init"]
  /\ nops = 0

NextSchemas ==
  \/ \E class \in Classes : \E instance \in Instances(class) :
       Create(class, instance)
  \/ \E class \in Classes : \E instance \in DeleteInstances(class) :
       Delete(class, instance)
  \/ \E class \in Classes : \E id \in Ids :
       \E includeMap \in IncludeMaps(class) : GetById(class, id, includeMap)

SpecSchemas == InitSchemas /\ [][NextSchemas]_vars

CreateOwner(instance) ==
  /\ ~includes(getTableIndex(localStorage, "person"), instance.id)
  /\ Create("Person", instance)

CreateChild(instance) ==
  /\ "personId" \in DOMAIN instance
  /\ includes(getTableIndex(localStorage, "person"), instance.personId)
  /\ ~includes(getTableIndex(localStorage, "address"), instance.id)
  /\ Create("Address", instance)

NextScenario ==
  \/ \E instance \in PersonLeaves : CreateOwner(instance)
  \/ \E instance \in AddressLeaves : CreateChild(instance)

SpecScenario == Init /\ [][NextScenario]_vars

-----------------------------------------------------------------------------
(* SpecQueries: rows are created and deleted, and the store they leave is  *)
(* read with one fetch of Queryable or ConditionalQueryable.               *)

First(class, conditions, includeMap) ==
  /\ nops < MaxOps
  /\ LET got == first(localStorage, class, conditions, includeMap)
     IN last' = [op |-> "where.first", class |-> class,
                 conditions |-> conditions, includeMap |-> includeMap,
                 error |-> got.error,
                 value |-> got.value, checked |-> got.checked]
  /\ nops' = nops + 1
  /\ UNCHANGED <<specifications, localStorage>>

AnyOf(class, conditions) ==
  /\ nops < MaxOps
  /\ LET got == any(localStorage, class, conditions)
     IN last' = [op |-> "where.any", class |-> class,
                 conditions |-> conditions, error |-> NoError,
                 value |-> got.value, checked |-> got.checked]
  /\ nops' = nops + 1
  /\ UNCHANGED <<specifications, localStorage>>

\* the key lists given to select on the address table
SelectKeys == {<<"city">>, <<"id", "personId">>, <<"id", "city", "personId">>}

Select(class, conditions, keys, includeMap) ==
  /\ nops < MaxOps
  /\ LET got == select(localStorage, class, conditions, keys, includeMap)
     IN last' = [op |-> "where.select", class |-> class,
                 conditions |-> conditions, keys |-> keys,
                 includeMap |-> includeMap,
                 error |-> got.error, value |-> got.value]
  /\ nops' = nops + 1
  /\ UNCHANGED <<specifications, localStorage>>

\* the longest list of identifiers given to getByIds
MaxIds == 2

\* the lists of at most n elements of a set, the empty one included
RECURSIVE SeqsUpTo(_, _)
SeqsUpTo(elements, n) ==
  IF n = 0 THEN {<<>>}
  ELSE SeqsUpTo(elements, n - 1)
       \cup {Append(l, e) : l \in SeqsUpTo(elements, n - 1), e \in elements}

\* a key that is no relation of either schema
NoRelation == "zip"

\* the include maps of the fetches: those of IncludeMaps and an invalid one
QueryIncludeMaps(class) ==
  IncludeMaps(class)
    \cup {include(NoRelation)}
    \cup (IF class = "Address"
            THEN {includeThenInclude("person", NoRelation)} ELSE {})

GetByIds(class, ids, includeMap) ==
  /\ nops < MaxOps
  /\ LET got == getByIds(localStorage, class, Arr(ids), includeMap)
     IN last' = [op |-> "getByIds", class |-> class, ids |-> ids,
                 includeMap |-> includeMap,
                 error |-> got.error, value |-> got.value]
  /\ nops' = nops + 1
  /\ UNCHANGED <<specifications, localStorage>>

GetAll(class, includeMap) ==
  /\ nops < MaxOps
  /\ LET got == getAll(localStorage, class, includeMap)
     IN last' = [op |-> "getAll", class |-> class, includeMap |-> includeMap,
                 error |-> got.error, value |-> got.value]
  /\ nops' = nops + 1
  /\ UNCHANGED <<specifications, localStorage>>

\* where(..).getAll() of a queryable that carries an include map
ConditionalGetAllWith(class, conditions, includeMap) ==
  /\ nops < MaxOps
  /\ LET got == conditionalGetAll(localStorage, class, conditions, includeMap)
     IN last' = [op |-> "where.getAll", class |-> class,
                 conditions |-> conditions, includeMap |-> includeMap,
                 error |-> got.error, value |-> got.value]
  /\ nops' = nops + 1
  /\ UNCHANGED <<specifications, localStorage>>

\* the script has made no fetch yet
Building == last.op \in {"init", "create", "delete"}

NextQueries ==
  \/ /\ Building
     /\ \E class \in Classes : \E instance \in Instances(class) :
          Create(class, instance)
  \/ /\ Building
     /\ \E class \in Classes : \E instance \in DeleteInstances(class) :
          Delete(class, instance)
  \/ /\ Building
     /\ \E conditions \in ConditionLists :
          \E includeMap \in {<<>>, include(NoRelation)} :
            First("Address", conditions, includeMap)
  \/ /\ Building
     /\ \E conditions \in ConditionLists : AnyOf("Address", conditions)
  \/ /\ Building
     /\ \E conditions \in ConditionLists : \E keys \in SelectKeys :
          \E includeMap \in QueryIncludeMaps("Address") :
            Select("Address", conditions, keys, includeMap)
  \/ /\ Building
     /\ \E class \in Classes : \E id \in Ids :
          \E includeMap \in QueryIncludeMaps(class) :
            GetById(class, id, includeMap)
  \/ /\ Building
     /\ \E class \in Classes : \E includeMap \in QueryIncludeMaps(class) :
          GetAll(class, includeMap)
  \/ /\ Building
     /\ \E conditions \in ConditionLists :
          \E includeMap \in QueryIncludeMaps("Address") :
            ConditionalGetAllWith("Address", conditions, includeMap)
  \/ /\ Building
     /\ \E class \in Classes : \E ids \in SeqsUpTo(Ids, MaxIds) :
          \E includeMap \in QueryIncludeMaps(class) :
            GetByIds(class, ids, includeMap)

SpecQueries == Init /\ [][NextQueries]_vars

-----------------------------------------------------------------------------
(* SpecIncludes: a queryable is taken from a repository and include and    *)
(* thenInclude are called on it and on the queryables they return; a call  *)
(* that throws leaves the queryable it was called on as it was.            *)

\* the number of calls in one chain
MaxChain == 4

\* the relation names given to include and thenInclude
IncludeKeys == {"address", "person"}

GetQueryable(class) ==
  /\ nops < MaxChain
  /\ last' = [op |-> "getQueryable", class |-> class, error |-> NoError,
              queryable |-> newQueryable, calls |-> <<>>]
  /\ nops' = nops + 1
  /\ UNCHANGED <<specifications, localStorage>>

Include(key) ==
  /\ nops < MaxChain
  /\ last.op \in {"getQueryable", "include", "thenInclude"}
  /\ LET done == queryableInclude(last.queryable, key)
     IN last' = [op |-> "include", class |-> last.class, error |-> done.error,
                 queryable |-> done.queryable,
                 calls |-> Append(last.calls, [op |-> "include", key |-> key])]
  /\ nops' = nops + 1
  /\ UNCHANGED <<specifications, localStorage>>

ThenInclude(key) ==
  /\ nops < MaxChain
  /\ last.op \in {"getQueryable", "include", "thenInclude"}
  /\ LET done == thenInclude(last.queryable, key)
     IN last' = [op |-> "thenInclude", class |-> last.class,
                 error |-> done.error, queryable |-> done.queryable,
                 calls |-> Append(last.calls,
                                  [op |-> "thenInclude", key |-> key])]
  /\ nops' = nops + 1
  /\ UNCHANGED <<specifications, localStorage>>

NextIncludes ==
  \/ \E class \in Classes : GetQueryable(class)
  \/ \E key \in IncludeKeys : Include(key)
  \/ \E key \in IncludeKeys : ThenInclude(key)

SpecIncludes == Init /\ [][NextIncludes]_vars

-----------------------------------------------------------------------------
(* SpecRegistry: specifications are registered in an empty registry.       *)

\* specifications of three classes on two table names and a default one
RegisterSpecifications ==
  {PersonSpecification, AddressSpecification,
   AddressWithoutPersonSpecification,
   build(hasIdentifier(builderAs(newBuilder("Person"), "address"),
                       "id")).specification,
   build(hasIdentifier(newBuilder("Address"), "id")).specification,
   build(hasIdentifier(builderAs(newBuilder("Order"), "person"),
                       "id")).specification}

InitRegistry ==
  /\ specifications = <<>>
  /\ localStorage = <<>>
  /\ last = [op |-> "init"]
  /\ nops = 0

Register(specification) ==
  /\ nops < MaxOps
  /\ LET done == register(specifications, specification)
     IN /\ specifications' = done.specifications
        /\ last' = [op |-> "register", specification |-> specification,
                    error |-> done.error, before |-> specifications]
  /\ nops' = nops + 1
  /\ UNCHANGED localStorage

NextRegistry ==
  \E specification \in RegisterSpecifications : Register(specification)

SpecRegistry == InitRegistry /\ [][NextRegistry]_vars

-----------------------------------------------------------------------------
(* SpecBuilder: calls on one ClassSpecificationBuilder, in any order.  A   *)
(* call that throws leaves the builder as it was, and the program goes on  *)
(* with it.  last.builder is the builder, last.built tells that build()    *)
(* has returned, last.atBuild is what the specification held then.         *)

\* the number of calls made on one builder
MaxCalls == 4

\* the builder the next call is made on
theBuilder == [last.builder EXCEPT !.error = NoError]

NewBuilder(class) ==
  /\ last.op = "init"
  /\ last' = [op |-> "new", builder |-> newBuilder(class), error |-> NoError,
              built |-> FALSE, atBuild |-> newBuilder(class).specification]
  /\ UNCHANGED <<specifications, localStorage, nops>>

\* what is known after a call that returned or threw
afterCall(op, builder) ==
  [op |-> op, builder |-> builder, error |-> builder.error,
   built |-> last.built, atBuild |-> last.atBuild]

BuilderAs(tableName) ==
  /\ last.op # "init"
  /\ nops < MaxCalls
  /\ last' = afterCall("as",
                     builderAs(theBuilder, tableName))
  /\ nops' = nops + 1
  /\ UNCHANGED <<specifications, localStorage>>

HasIdentifier(identifier) ==
  /\ last.op # "init"
  /\ nops < MaxCalls
  /\ last' = afterCall("hasIdentifier",
                     hasIdentifier(theBuilder, identifier))
  /\ nops' = nops + 1
  /\ UNCHANGED <<specifications, localStorage>>

Has(property) ==
  /\ last.op # "init"
  /\ nops < MaxCalls
  /\ last' = afterCall("has",
                     has(theBuilder, property))
  /\ nops' = nops + 1
  /\ UNCHANGED <<specifications, localStorage>>

HasOne(property, relatedClass, correspondingIdentifierProperty) ==
  /\ last.op # "init"
  /\ nops < MaxCalls
  /\ last' = afterCall("hasOne",
                     hasOne(theBuilder, property, relatedClass,
                            correspondingIdentifierProperty))
  /\ nops' = nops + 1
  /\ UNCHANGED <<specifications, localStorage>>

HasMany(property, relatedClass, correspondingIdentifierProperty) ==
  /\ last.op # "init"
  /\ nops < MaxCalls
  /\ last' = afterCall("hasMany",
                     hasMany(theBuilder, property, relatedClass,
                             correspondingIdentifierProperty))
  /\ nops' = nops + 1
  /\ UNCHANGED <<specifications, localStorage>>

Build ==
  /\ last.op # "init"
  /\ nops < MaxCalls
  /\ LET done == build(theBuilder)
     IN last' = [op |-> "build", builder |-> theBuilder,
                 error |-> done.error,
                 built |-> (last.built \/ done.error = NoError),
                 atBuild |-> IF done.error = NoError
                               THEN done.specification ELSE last.atBuild]
  /\ nops' = nops + 1
  /\ UNCHANGED <<specifications, localStorage>>

NextBuilder ==
  \/ NewBuilder("Person")
  \/ BuilderAs("person")
  \/ HasIdentifier("id")
  \/ \E property \in {"id", "age", "address"} : Has(property)
  \/ HasOne("spouse", "Person", "spouseId")
  \/ HasMany("address", "Address", "personId")
  \/ Build

SpecBuilder == Init /\ [][NextBuilder]_vars

-----------------------------------------------------------------------------
(* SpecDump: the driver writes and removes items, dumps the store and      *)
(* loads dumps.  The page's localStorage may hold an item of another       *)
(* program, under a key that does not start with the prefix.               *)

\* the keys the driver is called with
DriverKeys == {"person:1:id;", "person:1:age;"}

\* a key of another program, holding the prefix but not at its start
ForeignKey == "theme::indexorm::person:1:id;"

\* the texts an item can hold
Texts == {EmptyText, JSONstringify(Str("1")), JSONstringify(Num(30))}

\* the dumps given to loadAll: texts under some of the keys
Dumps ==
  UNION {[keys -> Texts] :
           keys \in SUBSET ({keyPrefix \o k : k \in DriverKeys}
                            \cup {ForeignKey})}

InitDump ==
  /\ specifications = ReadmeRegistry
  /\ localStorage \in {<<>>, [k \in {ForeignKey} |-> JSONstringify(Str("dark"))]}
  /\ last = [op |-> "init"]
  /\ nops = 0

DriverWrite(key, value) ==
  /\ nops < MaxOps
  /\ localStorage' = write(localStorage, key, value)
  /\ last' = [op |-> "write", key |-> key, before |-> localStorage]
  /\ nops' = nops + 1
  /\ UNCHANGED specifications

DriverRemove(key) ==
  /\ nops < MaxOps
  /\ localStorage' = remove(localStorage, key)
  /\ last' = [op |-> "remove", key |-> key, before |-> localStorage]
  /\ nops' = nops + 1
  /\ UNCHANGED specifications

DumpAll ==
  /\ nops < MaxOps
  /\ last' = [op |-> "dumpAll", value |-> dumpAll(localStorage)]
  /\ nops' = nops + 1
  /\ UNCHANGED <<specifications, localStorage>>

LoadAll(data) ==
  /\ nops < MaxOps
  /\ localStorage' = loadAll(localStorage, data)
  /\ last' = [op |-> "loadAll", data |-> data, before |-> localStorage]
  /\ nops' = nops + 1
  /\ UNCHANGED specifications

NextDump ==
  \/ \E key \in DriverKeys : \E value \in {Str("1"), Num(30), Num(0)} :
       DriverWrite(key, value)
  \/ \E key \in DriverKeys : DriverRemove(key)
  \/ DumpAll
  \/ \E data \in Dumps : LoadAll(data)

SpecDump == InitDump /\ [][NextDump]_vars

-----------------------------------------------------------------------------
(* SpecCascade: create and update, one await at a time.  The entity        *)
(* objects live on a heap (reference -> instance); a relation property     *)
(* holds the reference of the related object, or an array of references,   *)
(* so that two objects can hold each other.  last carries the heap and the *)
(* pending async frames of the call in progress: the last frame runs, each *)
(* frame under it awaits the one above.  Of a chain of more than           *)
(* MaxPending frames the state keeps the last MaxPending; the older ones   *)
(* only wait, and last.older tells that there are some.                    *)

\* the pending frames the state keeps
MaxPending == 4

\* the calls a program makes on the repositories
MaxCascades == 2

\* a reference to the object r of the heap
Ref(r) == <<"object", r>>

\* object 1 of a heap: a person, with or without the address in its collection
PersonObjects ==
  LET bare == {[id |-> i, age |-> Num(30)] : i \in Ids}
  IN bare \cup {Assign(p, "address", Arr(<<Ref(2)>>)) : p \in bare}

\* object 2 of a heap: an address, with or without the foreign key, with or
\* without the person as its related object
AddressObjects ==
  LET bare == {[id |-> Str("1"), city |-> Str("Damak")]}
      withKey == bare \cup {Assign(a, "personId", i) : a \in bare, i \in Ids}
  IN withKey \cup {Assign(a, "person", Ref(1)) : a \in withKey}

Heaps ==
  {[r \in 1..2 |-> IF r = 1 THEN p ELSE a] :
     p \in PersonObjects, a \in AddressObjects}

\* the repository a program calls for the object r
ClassOf(r) == IF r = 1 THEN "Person" ELSE "Address"

\* the frame of create or of update on the object r, at its first statement
frame(fn, class, r) ==
  [fn |-> fn, class |-> class, instance |-> r, i |-> 1, j |-> 1,
   idOnSource |-> Undefined]

\* createOrUpdate(instance): update when the index holds the identifier,
\* create otherwise
createOrUpdateFrame(ls, heap, class, r) ==
  LET classSpecification == getSpecificationFor(class)
      index == getTableIndex(ls, classSpecification.tableName)
      identifierValue == Prop(heap[r], classSpecification.identifierProperty)
  IN frame(IF includes(index, identifierValue) THEN "update" ELSE "create",
           class, r)

\* a call was made and its promise is not settled
Pending == last.op = "cascade" /\ last.outcome = "pending"

\* the frame that runs
top == last.stack[Len(last.stack)]

topSpecification == getSpecificationFor(top.class)

topInstance == last.heap[top.instance]

\* the loop of handleRelationalProperties is at a relational property
atRelation == top.i <= Len(topSpecification.relationalProperties)

\* the stack with its last frame replaced
withTop(stack, f) == [stack EXCEPT ![Len(stack)] = f]

\* the frames of the stack that the state keeps
kept(stack) == IF Len(stack) > MaxPending THEN Tail(stack) ELSE stack

\* the stack awaits one frame more: whether frames older than the kept ones
\* exist from now on
olderAfterPush == last.older \/ Len(last.stack) = MaxPending

\* PersonRepository.create(instance) and the like: the call starts
Call(fn, heap, r) ==
  /\ ~Pending
  /\ nops < MaxCascades
  /\ last' = [op |-> "cascade", fn |-> fn, heap |-> heap,
              stack |-> <<frame(fn, ClassOf(r), r)>>,
              older |-> FALSE, outcome |-> "pending", error |-> NoError,
              before |-> localStorage]
  /\ nops' = nops + 1
  /\ UNCHANGED <<specifications, localStorage>>

\* await relationalRepository.createOrUpdate(relatedData): the frame that
\* runs assigns the foreign key and awaits the upsert of the related object
Descend ==
  /\ Pending
  /\ atRelation
  /\ LET relationalProperty == topSpecification.relationalProperties[top.i]
         fk == relationalProperty.correspondingIdentifierProperty
         related == Prop(topInstance, relationalProperty.name)
     IN \/ /\ ~relationalProperty.isCollection
           /\ Truthy(related)
           /\ LET relatedClassSpecification ==
                    getSpecificationFor(relationalProperty.class)
                  idOnSource ==
                    idOnSourceWith(topInstance, fk, last.heap[related[2]],
                                   relatedClassSpecification)
                  heap ==
                    IF Falsy(Prop(topInstance, fk))
                      THEN [last.heap EXCEPT
                              ![top.instance] = Assign(@, fk, idOnSource)]
                      ELSE last.heap
              IN last' =
                   [last EXCEPT
                      !.heap = heap,
                      !.older = olderAfterPush,
                      !.stack =
                        kept(Append(withTop(@, [top EXCEPT
                                                  !.idOnSource = idOnSource]),
                                    createOrUpdateFrame(localStorage, heap,
                                                        relationalProperty.class,
                                                        related[2])))]
        \/ /\ relationalProperty.isCollection
           /\ Truthy(related)
           /\ top.j <= Len(related[2])
           /\ LET member == related[2][top.j][2]
                  idOfSource ==
                    Prop(topInstance, topSpecification.identifierProperty)
                  heap ==
                    [last.heap EXCEPT
                       ![member] = withSourceId(@, fk, idOfSource)]
              IN last' =
                   [last EXCEPT
                      !.heap = heap,
                      !.older = olderAfterPush,
                      !.stack =
                        kept(Append(@, createOrUpdateFrame(localStorage, heap,
                                                           relationalProperty.class,
                                                           member)))]
  /\ UNCHANGED <<specifications, localStorage, nops>>

\* the frame that runs passes a relational property without an upsert: a
\* singular one without related object is indexed, a collection that is not
\* set, empty or walked to its end is left
Advance ==
  /\ Pending
  /\ atRelation
  /\ LET relationalProperty == topSpecification.relationalProperties[top.i]
         fk == relationalProperty.correspondingIdentifierProperty
         related == Prop(topInstance, relationalProperty.name)
         next == [top EXCEPT !.i = @ + 1, !.j = 1]
     IN \/ /\ ~relationalProperty.isCollection
           /\ Falsy(related)
           /\ localStorage' =
                addRelationIndex(
                  localStorage,
                  getSpecificationFor(relationalProperty.class).tableName,
                  topSpecification.tableName, fk, Prop(topInstance, fk),
                  Prop(topInstance, topSpecification.identifierProperty))
           /\ last' = [last EXCEPT !.stack = withTop(@, next)]
        \/ /\ relationalProperty.isCollection
           /\ IF Falsy(related) THEN TRUE ELSE top.j > Len(related[2])
           /\ localStorage' = localStorage
           /\ last' = [last EXCEPT !.stack = withTop(@, next)]
  /\ UNCHANGED <<specifications, nops>>

\* the store after the frame that runs has left handleRelationalProperties:
\* create adds the identifier to the index, both write the properties
finished ==
  LET identifierValue ==
        Prop(topInstance, topSpecification.identifierProperty)
      added ==
        IF top.fn = "create"
          THEN addTableIndex(localStorage, topSpecification.tableName,
                             identifierValue)
          ELSE [ls |-> localStorage, error |-> NoError]
  IN IF added.error # NoError THEN added
     ELSE [ls |-> writeProperties(added.ls, topSpecification, topInstance,
                                  identifierValue, 1),
           error |-> NoError]

\* the frame that runs returns: the call settles, or the frame that awaited
\* it goes on, a singular relation with addRelationIndex, a collection with
\* its next member (the frame that awaited it is one the state keeps)
Return ==
  /\ Pending
  /\ ~atRelation
  /\ finished.error = NoError
  /\ Len(last.stack) > 1 \/ ~last.older
  /\ LET rest == SubSeq(last.stack, 1, Len(last.stack) - 1)
     IN IF Len(rest) = 0
          THEN /\ localStorage' = finished.ls
               /\ last' = [last EXCEPT !.stack = rest, !.outcome = "returned"]
        ELSE
          LET caller == rest[Len(rest)]
              classSpecification == getSpecificationFor(caller.class)
              relationalProperty ==
                classSpecification.relationalProperties[caller.i]
          IN IF relationalProperty.isCollection
               THEN /\ localStorage' = finished.ls
                    /\ last' =
                         [last EXCEPT
                            !.stack =
                              withTop(rest, [caller EXCEPT !.j = @ + 1])]
             ELSE /\ localStorage' =
                       addRelationIndex(
                         finished.ls,
                         getSpecificationFor(relationalProperty.class).tableName,
                         classSpecification.tableName,
                         relationalProperty.correspondingIdentifierProperty,
                         caller.idOnSource,
                         Prop(last.heap[caller.instance],
                              classSpecification.identifierProperty))
                  /\ last' =
                       [last EXCEPT
                          !.stack =
                            withTop(rest, [caller EXCEPT !.i = @ + 1])]
  /\ UNCHANGED <<specifications, nops>>

\* addTableIndex throws in the frame that runs: no frame catches, the call
\* is rejected
Fail ==
  /\ Pending
  /\ ~atRelation
  /\ finished.error # NoError
  /\ last' = [last EXCEPT !.stack = <<>>, !.outcome = "failed",
                          !.error = finished.error]
  /\ UNCHANGED <<specifications, localStorage, nops>>

\* what the event loop does while a call is pending
Step == Descend \/ Advance \/ Return \/ Fail

NextCascade ==
  \/ \E fn \in {"create", "update"} : \E heap \in Heaps : \E r \in 1..2 :
       Call(fn, heap, r)
  \/ Descend
  \/ Advance
  \/ Return
  \/ Fail

\* the event loop runs a pending frame whenever there is one
SpecCascade == Init /\ [][NextCascade]_vars /\ WF_vars(Step)

-----------------------------------------------------------------------------
(* SpecConcurrent: calls of create and delete on the person table that     *)
(* overlap.  A call runs from one await to the next in one piece; every    *)
(* read, write and remove of the driver is such a piece, and the pieces of *)
(* two calls interleave in any order.  last.calls holds the two calls (a   *)
(* slot is idle, or holds a call with its position pc and its local        *)
(* variables), last.time counts the pieces run so far; the calls note the  *)
(* time of their start, of the read and the write of addTableIndex, and of *)
(* their end.                                                              *)

\* the calls a program starts
MaxStarts == 2

Slots == {1, 2}

\* the persons passed to the calls: no related objects, so that
\* handleRelationalProperties reaches no await on the store
ConcurrentInstances == {[id |-> i, age |-> Num(30)] : i \in Ids}

\* the stores the calls start from: empty, or with the first person created
ConcurrentStores ==
  {<<>>, create(<<>>, "Person", [id |-> Str("1"), age |-> Num(30)]).ls}

\* a slot without a call
idle ==
  [op |-> "idle", instance |-> <<>>, pc |-> "none", index |-> Undefined,
   k |-> 0, outcome |-> "none", error |-> NoError,
   startedAt |-> 0, readAt |-> 0, wroteAt |-> 0, endedAt |-> 0]

\* the call in slot p
callOf(p) == last.calls[p]

\* the call in slot p is at the position pc
at(p, pc) == callOf(p).outcome = "pending" /\ callOf(p).pc = pc

personSpecification == getSpecificationFor("Person")

\* addTableIndex once the index was read, without the duplicate test
addTableIndexWithUnchecked(ls, tableName, identifier, index) ==
  LET indexKey == getTableIndexKey(tableName)
  IN IF Falsy(index)
       THEN [ls |-> write(ls, indexKey, Arr(<<identifier>>)), error |-> NoError]
     ELSE [ls |-> write(ls, indexKey, push(index, identifier)),
           error |-> NoError]

\* addTableIndex that reads the index again at the time it writes
addTableIndexWithFresh(ls, tableName, identifier, index) ==
  addTableIndex(ls, tableName, identifier)

\* addTableIndex once the index was read: what it writes or throws
addTableIndexWith(ls, tableName, identifier, index) ==
  LET indexKey == getTableIndexKey(tableName)
  IN IF Falsy(index)
       THEN [ls |-> write(ls, indexKey, Arr(<<identifier>>)), error |-> NoError]
     ELSE IF includes(index, identifier)
       THEN [ls |-> ls, error |-> "Index constraint violation"]
     ELSE [ls |-> write(ls, indexKey, push(index, identifier)),
           error |-> NoError]

\* removeTableIndex once the index was read
removeTableIndexWith(ls, tableName, identifier, index) ==
  IF Falsy(index) THEN ls
  ELSE write(ls, getTableIndexKey(tableName), filterNot(index, identifier))

InitConcurrent ==
  /\ specifications = ReadmeRegistry
  /\ localStorage \in ConcurrentStores
  /\ last = [op |-> "concurrent", time |-> 0, calls |-> [p \in Slots |-> idle]]
  /\ nops = 0

\* create(instance) is called: handleRelationalProperties finds no related
\* object, addTableIndex is entered
StartCreate(p, instance) ==
  /\ nops < MaxStarts
  /\ callOf(p).outcome # "pending"
  /\ last' = [last EXCEPT
                !.time = @ + 1,
                !.calls[p] = [idle EXCEPT !.op = "create",
                                          !.instance = instance,
                                          !.pc = "addTableIndex:read",
                                          !.outcome = "pending",
                                          !.startedAt = last.time + 1]]
  /\ nops' = nops + 1
  /\ UNCHANGED <<specifications, localStorage>>

\* delete(instance) is called
StartDelete(p, instance) ==
  /\ nops < MaxStarts
  /\ callOf(p).outcome # "pending"
  /\ last' = [last EXCEPT
                !.time = @ + 1,
                !.calls[p] = [idle EXCEPT !.op = "delete",
                                          !.instance = instance,
                                          !.pc = "getTableIndex",
                                          !.outcome = "pending",
                                          !.startedAt = last.time + 1]]
  /\ nops' = nops + 1
  /\ UNCHANGED <<specifications, localStorage>>

\* addTableIndex: const index = await DataDriver.instance.read(indexKey)
AddTableIndexRead(p) ==
  /\ at(p, "addTableIndex:read")
  /\ last' = [last EXCEPT
                !.time = @ + 1,
                !.calls[p].index =
                  read(localStorage,
                       getTableIndexKey(personSpecification.tableName)),
                !.calls[p].readAt = last.time + 1,
                !.calls[p].pc = "addTableIndex:write"]
  /\ UNCHANGED <<specifications, localStorage, nops>>

\* addTableIndex writes the index it read with the identifier added
AddTableIndexWrite(p) ==
  /\ at(p, "addTableIndex:write")
  /\ LET added == addTableIndexWith(localStorage,
                                    personSpecification.tableName,
                                    callOf(p).instance.id, callOf(p).index)
     IN /\ added.error = NoError
        /\ localStorage' = added.ls
  /\ last' = [last EXCEPT !.time = @ + 1,
                          !.calls[p].wroteAt = last.time + 1,
                          !.calls[p].k = 1,
                          !.calls[p].pc = "write"]
  /\ UNCHANGED <<specifications, nops>>

\* addTableIndex throws: the index it read holds the identifier
AddTableIndexThrow(p) ==
  /\ at(p, "addTableIndex:write")
  /\ LET added == addTableIndexWith(localStorage,
                                    personSpecification.tableName,
                                    callOf(p).instance.id, callOf(p).index)
     IN /\ added.error # NoError
        /\ last' = [last EXCEPT !.time = @ + 1,
                                !.calls[p].outcome = "failed",
                                !.calls[p].error = added.error,
                                !.calls[p].endedAt = last.time + 1]
  /\ UNCHANGED <<specifications, localStorage, nops>>

\* create: await DataDriver.instance.write(dataKey, dataToStore), for the
\* k-th property; after the last one create returns
WriteProperty(p) ==
  /\ at(p, "write")
  /\ LET properties == personSpecification.nonRelationalProperties
         property == properties[callOf(p).k]
         instance == callOf(p).instance
         dataToStore == IF Prop(instance, property) = Undefined
                          THEN Null ELSE Prop(instance, property)
     IN /\ localStorage' =
             write(localStorage,
                   getDataKey(personSpecification.tableName, instance.id,
                              property),
                   dataToStore)
        /\ last' =
             IF callOf(p).k < Len(properties)
               THEN [last EXCEPT !.time = @ + 1, !.calls[p].k = @ + 1]
               ELSE [last EXCEPT !.time = @ + 1,
                                 !.calls[p].outcome = "returned",
                                 !.calls[p].endedAt = last.time + 1]
  /\ UNCHANGED <<specifications, nops>>

\* delete: const index = await DataDriver.getTableIndex(tableName); the call
\* returns when the index does not hold the identifier
GetTableIndex(p) ==
  /\ at(p, "getTableIndex")
  /\ LET index == getTableIndex(localStorage, personSpecification.tableName)
     IN last' =
          IF includes(index, callOf(p).instance.id)
            THEN [last EXCEPT !.time = @ + 1,
                              !.calls[p].pc = "removeTableIndex:read"]
            ELSE [last EXCEPT !.time = @ + 1,
                              !.calls[p].outcome = "returned",
                              !.calls[p].endedAt = last.time + 1]
  /\ UNCHANGED <<specifications, localStorage, nops>>

\* removeTableIndex: const index = await DataDriver.instance.read(indexKey)
RemoveTableIndexRead(p) ==
  /\ at(p, "removeTableIndex:read")
  /\ last' = [last EXCEPT
                !.time = @ + 1,
                !.calls[p].index =
                  read(localStorage,
                       getTableIndexKey(personSpecification.tableName)),
                !.calls[p].pc = "removeTableIndex:write"]
  /\ UNCHANGED <<specifications, localStorage, nops>>

\* removeTableIndex writes the index it read without the identifier
RemoveTableIndexWrite(p) ==
  /\ at(p, "removeTableIndex:write")
  /\ localStorage' =
       removeTableIndexWith(localStorage, personSpecification.tableName,
                            callOf(p).instance.id, callOf(p).index)
  /\ last' = [last EXCEPT !.time = @ + 1,
                          !.calls[p].k = 1,
                          !.calls[p].pc = "remove"]
  /\ UNCHANGED <<specifications, nops>>

\* delete: await DataDriver.instance.remove(dataKey), for the k-th property
RemoveProperty(p) ==
  /\ at(p, "remove")
  /\ LET properties == personSpecification.nonRelationalProperties
     IN /\ localStorage' =
             remove(localStorage,
                    getDataKey(personSpecification.tableName,
                               callOf(p).instance.id,
                               properties[callOf(p).k]))
        /\ last' =
             IF callOf(p).k < Len(properties)
               THEN [last EXCEPT !.time = @ + 1, !.calls[p].k = @ + 1]
               ELSE [last EXCEPT !.time = @ + 1,
                                 !.calls[p].k = 1,
                                 !.calls[p].pc = "removeRelation"]
  /\ UNCHANGED <<specifications, nops>>

\* delete: the k-th relational property, a collection for the person:
\* await DataDriver.removeRelationIndexRecord(...); after the last one
\* delete returns
RemoveRelation(p) ==
  /\ at(p, "removeRelation")
  /\ LET relationalProperties == personSpecification.relationalProperties
         relationalProperty == relationalProperties[callOf(p).k]
     IN /\ relationalProperty.isCollection
        /\ localStorage' =
             removeRelationIndexRecord(
               localStorage, personSpecification.tableName,
               getSpecificationFor(relationalProperty.class).tableName,
               relationalProperty.correspondingIdentifierProperty,
               callOf(p).instance.id)
        /\ last' =
             IF callOf(p).k < Len(relationalProperties)
               THEN [last EXCEPT !.time = @ + 1, !.calls[p].k = @ + 1]
               ELSE [last EXCEPT !.time = @ + 1,
                                 !.calls[p].outcome = "returned",
                                 !.calls[p].endedAt = last.time + 1]
  /\ UNCHANGED <<specifications, nops>>

NextConcurrent ==
  \/ \E p \in Slots : \E instance \in ConcurrentInstances :
       StartCreate(p, instance)
  \/ \E p \in Slots : \E instance \in ConcurrentInstances :
       StartDelete(p, instance)
  \/ \E p \in Slots : AddTableIndexRead(p)
  \/ \E p \in Slots : AddTableIndexWrite(p)
  \/ \E p \in Slots : AddTableIndexThrow(p)
  \/ \E p \in Slots : WriteProperty(p)
  \/ \E p \in Slots : GetTableIndex(p)
  \/ \E p \in Slots : RemoveTableIndexRead(p)
  \/ \E p \in Slots : RemoveTableIndexWrite(p)
  \/ \E p \in Slots : RemoveProperty(p)
  \/ \E p \in Slots : RemoveRelation(p)

SpecConcurrent == InitConcurrent /\ [][NextConcurrent]_vars

-----------------------------------------------------------------------------
(* SpecCollections: persons are created and updated with the address       *)
(* collection absent, empty or populated, and addresses on their own.      *)

\* a person whose collection is absent, empty, or holds one address
CollectionOwners ==
  LET bare == {[id |-> i, age |-> Num(30)] : i \in Ids}
  IN bare
     \cup {Assign(p, "address", <<>>) : p \in bare}
     \cup {Assign(p, "address", <<[id |-> j, city |-> Str("Damak")]>>) :
             p \in bare, j \in Ids}

\* an address with its foreign key set
CollectionChildren ==
  {[id |-> j, city |-> Str("Pokhara"), personId |-> i] : j \in Ids, i \in Ids}

NextCollections ==
  \/ \E instance \in CollectionOwners : Create("Person", instance)
  \/ \E instance \in CollectionOwners : Update("Person", instance)
  \/ \E instance \in CollectionChildren : Create("Address", instance)

SpecCollections == Init /\ [][NextCollections]_vars

-----------------------------------------------------------------------------
(* SpecClearing: addresses without a related object are created, updated   *)
(* with fields left out, and fetched; the empty string is a city           *)
(* JavaScript treats as false.                                             *)

ClearingInstances ==
  LET bare == {[id |-> i] : i \in Ids}
      withCity == bare \cup {Assign(a, "city", c) :
                               a \in bare, c \in {Str("Damak"), Str("")}}
  IN withCity \cup {Assign(a, "personId", i) : a \in withCity, i \in Ids}

NextClearing ==
  \/ \E instance \in ClearingInstances : Create("Address", instance)
  \/ \E instance \in ClearingInstances : Update("Address", instance)
  \/ \E id \in Ids : GetById("Address", id, <<>>)

SpecClearing == Init /\ [][NextClearing]_vars

-----------------------------------------------------------------------------
(* SpecUpsert: persons are created on their own, and addresses are created *)
(* and updated with their person attached, whose age may be 0.             *)

UpsertAddresses ==
  {[id |-> j, city |-> Str("Damak"), person |-> p] :
     j \in Ids, p \in PersonLeaves}

NextUpsert ==
  \/ \E instance \in PersonLeaves : Create("Person", instance)
  \/ \E instance \in UpsertAddresses : Create("Address", instance)
  \/ \E instance \in UpsertAddresses : Update("Address", instance)

SpecUpsert == Init /\ [][NextUpsert]_vars

-----------------------------------------------------------------------------
(* SpecBackup: rows are created, a dump of the store is taken, rows are    *)
(* created, updated and deleted, and the dump is loaded again.  The dump   *)
(* and the store it was taken of are kept in last until the dump is loaded.*)

BackupInstances(class) ==
  IF class = "Person" THEN PersonLeaves ELSE CollectionChildren

\* a dump has been taken and not yet loaded
DumpHeld == last.op \in {"dumpAll", "since"}

since(dump, taken) == [op |-> "since", value |-> dump, taken |-> taken]

Backup ==
  /\ nops < MaxOps
  /\ last' = [op |-> "dumpAll", value |-> dumpAll(localStorage),
              taken |-> localStorage]
  /\ nops' = nops + 1
  /\ UNCHANGED <<specifications, localStorage>>

CreateSince(class, instance) ==
  /\ DumpHeld
  /\ nops < MaxOps
  /\ localStorage' = create(localStorage, class, instance).ls
  /\ last' = since(last.value, last.taken)
  /\ nops' = nops + 1
  /\ UNCHANGED specifications

UpdateSince(class, instance) ==
  /\ DumpHeld
  /\ nops < MaxOps
  /\ localStorage' = update(localStorage, class, instance).ls
  /\ last' = since(last.value, last.taken)
  /\ nops' = nops + 1
  /\ UNCHANGED specifications

DeleteSince(class, instance) ==
  /\ DumpHeld
  /\ nops < MaxOps
  /\ localStorage' = delete(localStorage, class, instance)
  /\ last' = since(last.value, last.taken)
  /\ nops' = nops + 1
  /\ UNCHANGED specifications

Restore ==
  /\ DumpHeld
  /\ nops < MaxOps
  /\ localStorage' = loadAll(localStorage, last.value)
  /\ last' = [op |-> "loadAll", value |-> last.value, taken |-> last.taken,
              before |-> localStorage]
  /\ nops' = nops + 1
  /\ UNCHANGED specifications

NextBackup ==
  \/ \E class \in Classes : \E instance \in BackupInstances(class) :
       Create(class, instance)
  \/ Backup
  \/ \E class \in Classes : \E instance \in BackupInstances(class) :
       CreateSince(class, instance)
  \/ \E class \in Classes : \E instance \in BackupInstances(class) :
       UpdateSince(class, instance)
  \/ \E class \in Classes : \E instance \in DeleteInstances(class) :
       DeleteSince(class, instance)
  \/ Restore

SpecBackup == Init /\ [][NextBackup]_vars

-----------------------------------------------------------------------------
(* SpecShadow: a view is made over a record with two relation fields, and  *)
(* the program writes and reads its fields.  last keeps the view, the      *)
(* names guarded when it was made and the value last written to each field.*)

ShadowFields == {"age", "address", "spouse"}

ShadowValues == {Null, Arr(<<>>), Arr(<<Str("1")>>)}

ShadowSources == {[id |-> Str("1")], [id |-> Str("1"), age |-> Num(30)]}

\* Shadow.for(source, navigationalProperties)
For(source, navigationalProperties) ==
  /\ nops < MaxChain
  /\ last.op = "init"
  /\ last' = [op |-> "for", shadow |-> ShadowFor(source, navigationalProperties),
              guarded |-> navigationalProperties, written |-> <<>>]
  /\ nops' = nops + 1
  /\ UNCHANGED <<specifications, localStorage>>

\* view[prop] = value
Set(prop, value) ==
  /\ nops < MaxChain
  /\ last.op \in {"for", "set", "get"}
  /\ last' = [op |-> "set", shadow |-> ShadowSet(last.shadow, prop, value),
              guarded |-> last.guarded,
              written |-> Assign(last.written, prop, value),
              prop |-> prop, before |-> last.shadow]
  /\ nops' = nops + 1
  /\ UNCHANGED <<specifications, localStorage>>

\* view[prop]
Get(prop) ==
  /\ nops < MaxChain
  /\ last.op \in {"for", "set", "get"}
  /\ LET got == ShadowGet(last.shadow, prop)
     IN last' = [op |-> "get", shadow |-> last.shadow,
                 guarded |-> last.guarded, written |-> last.written,
                 prop |-> prop, error |-> got.error, value |-> got.value]
  /\ nops' = nops + 1
  /\ UNCHANGED <<specifications, localStorage>>

NextShadow ==
  \/ \E source \in ShadowSources :
       \E navigationalProperties \in SUBSET {"address", "spouse"} :
         For(source, navigationalProperties)
  \/ \E prop \in ShadowFields : \E value \in ShadowValues : Set(prop, value)
  \/ \E prop \in ShadowFields : Get(prop)

SpecShadow == Init /\ [][NextShadow]_vars

-----------------------------------------------------------------------------
(* SpecResolve: getById resolves an include map one store access at a      *)
(* time.  last keeps the stack of the fetches that are running: a frame is *)
(* one activation of _getById and attachIncludesAndGet, at the k-th entry  *)
(* of its include context and, for a collection, at the j-th identifier of *)
(* the relation index it read (j = 0: not read yet).  The store does not   *)
(* change during a fetch.                                                  *)

\* the fetches a program starts
MaxFetches == 2

\* the frames the state keeps
MaxFrames == 6

\* stored data sets: one address of person 1, which points back to it; two
\* addresses of person 1 and one without a person
ResolveStores ==
  LET one == create(<<>>, "Address",
                    [id |-> Str("1"), city |-> Str("Damak"),
                     person |-> [id |-> Str("1"), age |-> Num(30)]]).ls
      two == create(one, "Address",
                    [id |-> Str("2"), city |-> Str("Pokhara"),
                     personId |-> Str("1")]).ls
  IN {one, two, create(two, "Person", [id |-> Str("2"), age |-> Num(30)]).ls}

\* include maps of depth 0 to 3 over the relation names
ResolveMaps ==
  {<<>>, include("address"), include("person"),
   includeThenInclude("address", "person"),
   includeThenInclude("person", "address"),
   << [key |-> "address", map |-> includeThenInclude("person", "address")] >>,
   << [key |-> "person", map |-> includeThenInclude("address", "person")] >>}

\* the depth of an include map
RECURSIVE MapDepth(_)
MapDepth(map) ==
  IF Len(map) = 0 THEN 0
  ELSE LET depths == {MapDepth(map[i].map) : i \in 1..Len(map)}
       IN 1 + CHOOSE d \in depths : \A e \in depths : e <= d

\* a context that includes every relation of the related class
childContextOfAll(includeContext, k, relatedClassSpecification) ==
  [i \in 1..Len(relatedClassSpecification.relationalProperties) |->
     [key |-> relatedClassSpecification.relationalProperties[i].name,
      map |-> <<>>]]

\* includeContext[includeKey], handed to injectIncludeMap
childContext(includeContext, k, relatedClassSpecification) ==
  includeContext[k].map

Resolving == last.op = "resolve" /\ last.outcome = "pending"

Settled == last.op = "resolve" /\ last.outcome # "pending"

fetchFrame(class, id, includeContext) ==
  [class |-> class, id |-> id, includeContext |-> includeContext,
   k |-> 1, ids |-> <<>>, j |-> 0]

running == last.stack[Len(last.stack)]

runningSpecification == getSpecificationFor(running.class)

\* the record _getById has read for the running frame
runningData ==
  readProperties(localStorage, runningSpecification, running.id, <<>>, 1)

atInclude == running.k <= Len(running.includeContext)

foundRelation ==
  findRelation(runningSpecification, running.includeContext[running.k].key)

theRelation == CHOOSE x \in foundRelation : TRUE

\* the running frame replaced by f
withRunning(f) == [last.stack EXCEPT ![Len(last.stack)] = f]

\* getById(id) is called on a queryable with this include map
FetchById(class, id, includeMap) ==
  /\ ~Resolving
  /\ nops < MaxFetches
  /\ last' =
       IF includes(getTableIndex(localStorage,
                                getSpecificationFor(class).tableName), id)
         THEN [op |-> "resolve", class |-> class, id |-> id,
               map |-> includeMap,
               stack |-> <<fetchFrame(class, id, includeMap)>>,
               deepest |-> 1, outcome |-> "pending", error |-> NoError]
         ELSE [op |-> "resolve", class |-> class, id |-> id,
               map |-> includeMap, stack |-> <<>>,
               deepest |-> 0, outcome |-> "failed",
               error |-> "No data found for id"]
  /\ nops' = nops + 1
  /\ UNCHANGED <<specifications, localStorage>>

\* a collection relation: the relation index is read and getByIds tests it
ReadRelationIndex ==
  /\ Resolving
  /\ atInclude
  /\ foundRelation # {}
  /\ theRelation.isCollection
  /\ running.j = 0
  /\ LET idsToFetch ==
           getRelationIndex(
             localStorage, runningSpecification.tableName,
             getSpecificationFor(theRelation.class).tableName,
             theRelation.correspondingIdentifierProperty,
             Prop(runningData, runningSpecification.identifierProperty))
         ids == IF Truthy(idsToFetch) THEN idsToFetch[2] ELSE <<>>
         indexes == getTableIndex(localStorage,
                                  getSpecificationFor(theRelation.class).tableName)
     IN /\ \A i \in 1..Len(ids) : includes(indexes, ids[i])
        /\ last' = [last EXCEPT
                      !.stack = withRunning([running EXCEPT !.ids = ids,
                                                            !.j = 1])]
  /\ UNCHANGED <<specifications, localStorage, nops>>

\* the recursive fetch of one related row
FetchRelated ==
  /\ Resolving
  /\ atInclude
  /\ foundRelation # {}
  /\ Len(last.stack) < MaxFrames
  /\ LET fk == theRelation.correspondingIdentifierProperty
         relatedClassSpecification == getSpecificationFor(theRelation.class)
         context == childContext(running.includeContext, running.k,
                                 relatedClassSpecification)
     IN IF theRelation.isCollection
          THEN /\ running.j >= 1
               /\ running.j <= Len(running.ids)
               /\ last' = [last EXCEPT
                             !.stack = Append(@, fetchFrame(theRelation.class,
                                                            running.ids[running.j],
                                                            context)),
                             !.deepest = IF Len(last.stack) + 1 > @
                                           THEN Len(last.stack) + 1 ELSE @]
          ELSE /\ fk \in DOMAIN runningData
               /\ Truthy(runningData[fk])
               /\ last' = [last EXCEPT
                             !.stack = Append(@, fetchFrame(theRelation.class,
                                                            runningData[fk],
                                                            context)),
                             !.deepest = IF Len(last.stack) + 1 > @
                                           THEN Len(last.stack) + 1 ELSE @]
  /\ UNCHANGED <<specifications, localStorage, nops>>

\* the loop goes to the next include key: every identifier of the collection
\* was fetched, or the singular relation has no foreign key to follow
NextInclude ==
  /\ Resolving
  /\ atInclude
  /\ foundRelation # {}
  /\ LET fk == theRelation.correspondingIdentifierProperty
     IN IF theRelation.isCollection
          THEN running.j >= 1 /\ running.j > Len(running.ids)
          ELSE IF fk \in DOMAIN runningData
                 THEN Falsy(runningData[fk]) ELSE TRUE
  /\ last' = [last EXCEPT
                !.stack = withRunning([running EXCEPT !.k = @ + 1,
                                                      !.ids = <<>>, !.j = 0])]
  /\ UNCHANGED <<specifications, localStorage, nops>>

\* attachIncludesAndGet returns: the caller goes on with its next
\* identifier or include key, the outermost call returns to the program
FetchReturns ==
  /\ Resolving
  /\ ~atInclude
  /\ last' =
       IF Len(last.stack) = 1
         THEN [last EXCEPT !.stack = <<>>, !.outcome = "returned"]
         ELSE LET caller == last.stack[Len(last.stack) - 1]
                  rest == SubSeq(last.stack, 1, Len(last.stack) - 2)
              IN [last EXCEPT
                    !.stack =
                      Append(rest,
                             IF caller.j >= 1
                               THEN [caller EXCEPT !.j = @ + 1]
                               ELSE [caller EXCEPT !.k = @ + 1])]
  /\ UNCHANGED <<specifications, localStorage, nops>>

\* a throw ends the whole fetch: an include key that names no relation, or
\* a relation index with an identifier its table's index lacks
FetchThrows ==
  /\ Resolving
  /\ atInclude
  /\ IF foundRelation = {} THEN TRUE
     ELSE /\ theRelation.isCollection
          /\ running.j = 0
          /\ LET idsToFetch ==
                   getRelationIndex(
                     localStorage, runningSpecification.tableName,
                     getSpecificationFor(theRelation.class).tableName,
                     theRelation.correspondingIdentifierProperty,
                     Prop(runningData, runningSpecification.identifierProperty))
                 ids == IF Truthy(idsToFetch) THEN idsToFetch[2] ELSE <<>>
                 indexes ==
                   getTableIndex(localStorage,
                                 getSpecificationFor(theRelation.class).tableName)
             IN \E i \in 1..Len(ids) : ~includes(indexes, ids[i])
  /\ last' = [last EXCEPT
                !.stack = <<>>, !.outcome = "failed",
                !.error = IF foundRelation = {} THEN "Invalid include key"
                          ELSE "One or more ids are missing"]
  /\ UNCHANGED <<specifications, localStorage, nops>>

ResolveStep ==
  ReadRelationIndex \/ FetchRelated \/ NextInclude \/ FetchReturns
    \/ FetchThrows

InitResolve ==
  /\ specifications = ReadmeRegistry
  /\ localStorage \in ResolveStores
  /\ last = [op |-> "init"]
  /\ nops = 0

NextResolve ==
  \/ \E class \in Classes : \E id \in Ids : \E includeMap \in ResolveMaps :
       FetchById(class, id, includeMap)
  \/ ReadRelationIndex
  \/ FetchRelated
  \/ NextInclude
  \/ FetchReturns
  \/ FetchThrows

SpecResolve == InitResolve /\ [][NextResolve]_vars /\ WF_vars(ResolveStep)

-----------------------------------------------------------------------------
(* SpecKeys: the relation-index key is computed for two buckets.  Names    *)
(* and identifiers may hold the delimiters of the key, and an identifier   *)
(* is a string or a number.                                                *)

KeyTables == {"person", "address"}

KeyFields == {"personId", "personId::with-identifier::1"}

KeyIdentifiers ==
  {Str("1"), Str("2"), Num(1), Str("1::with-identifier::2"), Undefined}

\* (source table, destination table, foreign-key field, foreign-key value)
KeyTuples ==
  [sourceTableName : KeyTables, destinationTableName : KeyTables,
   destinationIdPropertyNameOnSourceTable : KeyFields,
   destinationIdOnSourceTable : KeyIdentifiers]

keyOf(t) ==
  getRelationIndexKey(t.destinationTableName, t.sourceTableName,
                      t.destinationIdPropertyNameOnSourceTable,
                      t.destinationIdOnSourceTable)

GetRelationIndexKeys(one, other) ==
  /\ last.op = "init"
  /\ last' = [op |-> "getRelationIndexKey", first |-> one,
              second |-> other,
              firstKey |-> keyOf(one), secondKey |-> keyOf(other)]
  /\ nops' = nops + 1
  /\ UNCHANGED <<specifications, localStorage>>

NextKeys ==
  \E one \in KeyTuples : \E other \in KeyTuples :
    GetRelationIndexKeys(one, other)

SpecKeys == Init /\ [][NextKeys]_vars

-----------------------------------------------------------------------------
(* What the properties below read from a store.                            *)

TableOf(class) == getSpecificationFor(class).tableName

\* the identifier index of the class's table, as a sequence
IndexIds(ls, class) == getTableIndex(ls, TableOf(class))[2]

NoDuplicates(seq) ==
  \A i, j \in 1..Len(seq) : i # j => seq[i] # seq[j]

Elements(seq) == {seq[i] : i \in 1..Len(seq)}

ScalarFields(class) == Elements(getSpecificationFor(class).nonRelationalProperties)

\* the value stored for one scalar field of one row (null when none)
StoredValue(ls, class, id, property) ==
  read(ls, getDataKey(TableOf(class), id, property))

\* the address identifiers in the relation-index bucket of a person value
Bucket(ls, fkValue) ==
  LET bucket == getRelationIndex(ls, "person", "address", "personId", fkValue)
  IN IF Falsy(bucket) THEN <<>> ELSE bucket[2]

\* the identifiers of the records of a fetched array, in order
ResultIds(array) ==
  [j \in 1..Len(array[2]) |-> Prop(array[2][j].source, "id")]

\* the identifiers, in index order, whose stored values satisfy all conditions
Passing(ls, class, conditions) ==
  SelectSeq(IndexIds(ls, class),
            LAMBDA id :
              \A k \in 1..Len(conditions) :
                StoredValue(ls, class, id, conditions[k].key)
                  \in conditions[k].test)

\* the values a foreign key can take in an instance
FkValues == Ids \cup {Undefined}

-----------------------------------------------------------------------------
(* The properties.                                                         *)

\* C1: no table's identifier index holds an identifier twice after any
\* sequence of create, update and delete calls, and a create whose
\* identifier was already in the index fails with the duplicate error.
C1_Uniqueness ==
  /\ \A class \in Classes : NoDuplicates(IndexIds(localStorage, class))
  /\ (/\ last.op = "create"
      /\ inSeq(IndexIds(last.before, last.class), last.instance.id))
       => last.error = "Index constraint violation"

C1_Witness ==
  /\ last.op = "create"
  /\ inSeq(IndexIds(last.before, last.class), last.instance.id)
  /\ last.error = "Index constraint violation"
  /\ Len(IndexIds(localStorage, last.class)) = 2

\* C2: after a successful create(e) of an entity with only scalar fields
\* set, getById(e.id) succeeds and reading any scalar field of the schema on
\* the result yields e's value of that field.
C2_RoundTrip ==
  (/\ last.op = "create"
   /\ last.error = NoError
   /\ DOMAIN last.instance \subseteq ScalarFields(last.class))
    => LET got == getById(localStorage, last.class, last.instance.id, <<>>)
       IN /\ got.error = NoError
          /\ \A f \in ScalarFields(last.class) :
               ShadowGet(got.value, f).value = Prop(last.instance, f)

\* C3: where(..).getAll() with one or several chained conditions returns
\* exactly the rows whose stored values satisfy every condition, in index
\* order.
C3_FilterCorrect ==
  last.op = "where.getAll"
    => /\ last.error = NoError
       /\ ResultIds(last.value)
            = Passing(localStorage, last.class, last.conditions)

\* C4: after delete(x) of a stored entity, x being any instance with the
\* stored identifier, the identifier is in no table index and in no
\* relation-index bucket of the table, and getById fails with not-found.
C4_DeleteCleansIndexes ==
  (/\ last.op = "delete"
   /\ inSeq(IndexIds(last.before, last.class), last.instance.id))
    => /\ ~inSeq(IndexIds(localStorage, last.class), last.instance.id)
       /\ last.class = "Address"
            => \A v \in FkValues :
                 ~inSeq(Bucket(localStorage, v), last.instance.id)
       /\ getById(localStorage, last.class, last.instance.id, <<>>).error
            = "No data found for id"

\* the create of an owner with a populated collection that C5 is about
OwnerCreated ==
  /\ last.op = "create"
  /\ last.class = "Person"
  /\ last.error = NoError
  /\ "address" \in DOMAIN last.instance

\* what C5 asserts after that create: every member is stored with the
\* owner's identifier as its foreign key, and getById(owner) with the
\* collection included returns exactly the members
MembersStoredAndFetched ==
  LET owner == last.instance.id
      members == {last.instance.address[j].id :
                    j \in 1..Len(last.instance.address)}
      got == getById(localStorage, "Person", owner, include("address"))
  IN /\ \A m \in members :
          StoredValue(localStorage, "Address", m, "personId") = owner
     /\ got.error = NoError
     /\ Elements(ResultIds(ShadowGet(got.value, "address").value)) = members
     /\ NoDuplicates(ResultIds(ShadowGet(got.value, "address").value))

\* the child schema declares the Singular relation back to the owner on
\* the foreign-key field of the owner's Collection relation
InverseDeclared ==
  \E i \in 1..Len(getSpecificationFor("Address").relationalProperties) :
    LET inverse == getSpecificationFor("Address").relationalProperties[i]
    IN /\ ~inverse.isCollection
       /\ inverse.class = "Person"
       /\ inverse.correspondingIdentifierProperty = "personId"

\* C5 as stated: for any owner and child schemas in which the owner
\* declares a Collection relation, create(owner) with a non-empty list
\* stores each member with the owner's identifier and getById(owner) with
\* the relation included returns exactly those members.
C5_AnySchemas == OwnerCreated => MembersStoredAndFetched

\* C5 as amended: the same, for schemas in which the child declares the
\* inverse Singular relation on the foreign-key field, and when the owner's
\* relation-index bucket held no identifier before the call.
C5_CollectionBackReference ==
  (/\ OwnerCreated
   /\ InverseDeclared
   /\ Bucket(last.before, last.instance.id) = <<>>)
    => MembersStoredAndFetched

C5_Witness ==
  /\ OwnerCreated
  /\ InverseDeclared
  /\ Bucket(last.before, last.instance.id) = <<>>
  /\ Len(IndexIds(last.before, "Address")) > 0
  /\ Len(Bucket(localStorage, last.instance.id)) = Len(last.instance.address)

\* C6: with children created through the child repository with the foreign
\* key of an existing owner, getById(owner) with the collection included
\* returns exactly the children that reference the owner, in the order of
\* their creation (the order of the table index): none for an owner that no
\* child references.
C6_ChildrenOfOwner ==
  \A owner \in Ids :
    inSeq(IndexIds(localStorage, "Person"), owner)
      => LET got == getById(localStorage, "Person", owner, include("address"))
         IN /\ got.error = NoError
            /\ ResultIds(ShadowGet(got.value, "address").value)
                 = SelectSeq(IndexIds(localStorage, "Address"),
                             LAMBDA a :
                               StoredValue(localStorage, "Address", a,
                                           "personId") = owner)

C6_Witness ==
  /\ last.op = "create"
  /\ last.class = "Address"
  /\ last.error = NoError
  /\ Len(Bucket(localStorage, last.instance.personId)) = 2
  /\ IndexIds(localStorage, "Address")[2] = last.instance.id

\* C7: a successful create(e) of an entity that carries a Singular related
\* object r and no foreign key stores r's identifier as e's foreign key and
\* leaves a row of r in the target table; getById(e.id) with the relation
\* included then yields, under the relation, the stored scalar fields of r.
C7_SingularCascade ==
  (/\ last.op = "create"
   /\ last.class = "Address"
   /\ last.error = NoError
   /\ "person" \in DOMAIN last.instance
   /\ "personId" \notin DOMAIN last.instance)
    => LET e == last.instance
           r == last.instance.person
           got == getById(localStorage, "Address", e.id, include("person"))
           related == ShadowGet(got.value, "person")
       IN /\ StoredValue(localStorage, "Address", e.id, "personId") = r.id
          /\ inSeq(IndexIds(localStorage, "Person"), r.id)
          /\ got.error = NoError
          /\ related.error = NoError
          /\ \A f \in ScalarFields("Person") :
               /\ ShadowGet(related.value, f).value = Prop(r, f)
               /\ StoredValue(localStorage, "Person", r.id, f) = Prop(r, f)

C7_Witness ==
  /\ last.op = "create"
  /\ last.class = "Address"
  /\ last.error = NoError
  /\ "person" \in DOMAIN last.instance
  /\ "personId" \notin DOMAIN last.instance
  /\ inSeq(IndexIds(last.before, "Person"), last.instance.person.id)

\* C8: on an entity fetched by getById, reading a Singular relation that was
\* not included fails; reading one that was included succeeds, and yields
\* null when the entity's stored foreign key is empty.
C8_GuardEnforcement ==
  (/\ last.op = "getById"
   /\ last.class = "Address"
   /\ last.error = NoError)
    => /\ last.includeMap = <<>>
            => ShadowGet(last.value, "person").error # NoError
       /\ last.includeMap = include("person")
            => /\ ShadowGet(last.value, "person").error = NoError
               /\ Falsy(StoredValue(localStorage, "Address", last.id,
                                    "personId"))
                    => ShadowGet(last.value, "person").value = Null

\* C9: count() returns the number of rows that pass all conditions.
C9_CountIsCardinality ==
  last.op = "where.count"
    => last.value = Len(Passing(localStorage, last.class, last.conditions))

\* C10: single() fails when no row or more than one row passes all
\* conditions, and returns the passing row when exactly one passes.
C10_SingleExactlyOne ==
  last.op = "where.single"
    => LET passing == Passing(localStorage, last.class, last.conditions)
       IN IF Len(passing) = 1
            THEN /\ last.error = NoError
                 /\ Prop(last.value.source, "id") = passing[1]
            ELSE last.error # NoError

\* the identifiers first() and any() have to evaluate: those of the index up
\* to and including the first that passes, all of them when none passes
UpToFirstPassing(ls, class, conditions) ==
  LET index == IndexIds(ls, class)
      passing == Passing(ls, class, conditions)
      stop == IF passing = <<>> THEN Len(index)
              ELSE CHOOSE j \in 1..Len(index) :
                     /\ index[j] = passing[1]
                     /\ \A i \in 1..(j - 1) : index[i] # passing[1]
  IN SubSeq(index, 1, stop)

\* C11: first() returns the record of the earliest identifier of the table
\* index that passes all conditions, or null when none passes; any() returns
\* true exactly when some identifier passes; neither evaluates the conditions
\* of an identifier placed after the first passing one.
C11_FirstAndAny ==
  LET passing == Passing(localStorage, last.class, last.conditions)
  IN /\ (last.op = "where.first" /\ last.includeMap = <<>>)
          => /\ last.error = NoError
             /\ IF passing = <<>> THEN last.value = Null
                ELSE Prop(last.value.source, "id") = passing[1]
             /\ last.checked
                  = UpToFirstPassing(localStorage, last.class, last.conditions)
     /\ last.op = "where.any"
          => /\ last.value = (passing # <<>>)
             /\ last.checked
                  = UpToFirstPassing(localStorage, last.class, last.conditions)

\* first() on a table of two rows whose second row is the first to pass
C11_Witness ==
  /\ last.op = "where.first"
  /\ last.includeMap = <<>>
  /\ Len(IndexIds(localStorage, "Address")) = 2
  /\ last.error = NoError
  /\ Passing(localStorage, "Address", last.conditions)
       = <<IndexIds(localStorage, "Address")[2]>>
  /\ Prop(last.value.source, "id") = IndexIds(localStorage, "Address")[2]
  /\ Len(last.checked) = 2

\* C12: select returns, for exactly the identifiers that pass all conditions
\* and in the order of the table index, a record that holds only the
\* requested scalar fields with their stored values; an included Singular
\* relation is attached exactly when its foreign-key field is among the
\* selected fields, and is otherwise left out without an error.
C12_SelectPartial ==
  (/\ last.op = "where.select"
   /\ last.includeMap \in {<<>>, include("person")})
    => LET passing == Passing(localStorage, last.class, last.conditions)
           attaches == /\ last.includeMap = include("person")
                       /\ inSeq(last.keys, "personId")
       IN /\ last.error = NoError
          /\ Len(last.value[2]) = Len(passing)
          /\ \A j \in 1..Len(passing) :
               LET record == last.value[2][j]
               IN /\ DOMAIN record.source \ {"person"} = Elements(last.keys)
                  /\ \A f \in Elements(last.keys) :
                       record.source[f]
                         = StoredValue(localStorage, last.class, passing[j], f)
                  /\ ("person" \in DOMAIN record.source) <=> attaches
                  /\ (ShadowGet(record, "person").error = NoError) <=> attaches

\* a select that attaches the person of the second of two rows only
C12_Witness ==
  /\ last.op = "where.select"
  /\ last.error = NoError
  /\ last.includeMap = include("person")
  /\ inSeq(last.keys, "personId")
  /\ Len(IndexIds(localStorage, "Address")) = 2
  /\ Len(last.value[2]) = 1
  /\ last.value[2][1].source.id = IndexIds(localStorage, "Address")[2]
  /\ "person" \in DOMAIN last.value[2][1].source

\* the include map holds the nested path path[1] > path[2] > ...
RECURSIVE HasPath(_, _)
HasPath(map, path) ==
  \/ path = <<>>
  \/ /\ ~mapLacks(map, Head(path))
     /\ HasPath(map[mapGet(map, Head(path))].map, Tail(path))

\* the calls are include(r1) followed by k >= 1 thenInclude calls
IsIncludeChain(calls) ==
  /\ Len(calls) >= 2
  /\ calls[1].op = "include"
  /\ \A i \in 2..Len(calls) : calls[i].op = "thenInclude"

\* C13: after include(r1) followed by k >= 1 thenInclude calls (r2 ..
\* r(k+1)) on the queryables returned, no call has failed and the include
\* map holds the nested path r1 > r2 > .. > r(k+1).
C13_IncludeChain ==
  (/\ last.op = "thenInclude"
   /\ IsIncludeChain(last.calls))
    => /\ last.error = NoError
       /\ HasPath(last.queryable.includeMap,
                  [i \in 1..Len(last.calls) |-> last.calls[i].key])

\* C14: getById(id) fails with not-found when id is not in the table index;
\* getByIds(ids) fails as a whole, returning no row, when some id of ids is
\* not in the table index, and otherwise returns one record per given id in
\* the order given.
C14_MissingIds ==
  /\ (/\ last.op = "getById"
      /\ ~inSeq(IndexIds(localStorage, last.class), last.id))
       => last.error = "No data found for id"
  /\ last.op = "getByIds"
       => IF \E i \in 1..Len(last.ids) :
               ~inSeq(IndexIds(localStorage, last.class), last.ids[i])
            THEN /\ last.error = "One or more ids are missing"
                 /\ last.value = Undefined
            ELSE /\ last.includeMap = <<>> => last.error = NoError
                 /\ last.error = NoError => ResultIds(last.value) = last.ids

\* getByIds of two stored identifiers, in the reverse of the index order
C14_Witness ==
  /\ last.op = "getByIds"
  /\ last.error = NoError
  /\ Len(last.ids) = 2
  /\ IndexIds(localStorage, last.class) = <<last.ids[2], last.ids[1]>>
  /\ ResultIds(last.value) = last.ids

\* the fetches that attach relations, and whether the fetch made last has
\* loaded a row of the table it was made on
FetchOps ==
  {"getById", "getByIds", "getAll", "where.getAll", "where.first",
   "where.select"}

LoadsARow ==
  LET index == IndexIds(localStorage, last.class)
  IN CASE last.op = "getById" -> inSeq(index, last.id)
       [] last.op = "getByIds" ->
            /\ last.ids # <<>>
            /\ \A i \in 1..Len(last.ids) : inSeq(index, last.ids[i])
       [] last.op = "getAll" -> index # <<>>
       [] OTHER ->
            Passing(localStorage, last.class, last.conditions) # <<>>

LoadsNoRow ==
  LET index == IndexIds(localStorage, last.class)
  IN CASE last.op = "getById" -> ~inSeq(index, last.id)
       [] last.op = "getByIds" ->
            \/ last.ids = <<>>
            \/ \E i \in 1..Len(last.ids) : ~inSeq(index, last.ids[i])
       [] last.op \in {"getAll", "where.getAll"} -> index = <<>>
       [] OTHER ->
            Passing(localStorage, last.class, last.conditions) = <<>>

C15_RegistryUnique ==
  /\ last.op = "register"
       => LET clash ==
                \/ last.specification.class \in DOMAIN last.before
                \/ \E c \in DOMAIN last.before :
                     last.before[c].tableName = last.specification.tableName
          IN /\ (last.error # NoError) <=> clash
             /\ clash => specifications = last.before
             /\ ~clash
                  => /\ DOMAIN specifications
                          = DOMAIN last.before \cup {last.specification.class}
                     /\ specifications[last.specification.class]
                          = last.specification
                     /\ \A c \in DOMAIN last.before :
                          specifications[c] = last.before[c]
  /\ \A c \in DOMAIN specifications : specifications[c].class = c
  /\ \A c1, c2 \in DOMAIN specifications :
       c1 # c2 => specifications[c1].tableName # specifications[c2].tableName

\* a register that fails on the table name alone, in a registry of two
C15_Witness ==
  /\ last.op = "register"
  /\ last.error = "Table is already mapped"
  /\ last.specification.class \notin DOMAIN last.before
  /\ DOMAIN specifications = {"Person", "Address"}

\* C17: in every specification build() returns, after builder calls in any
\* order, the identifier is one of the scalar fields, the scalar fields hold
\* no name twice, and no relation has the name of a scalar field.
C17_SchemaWellFormed ==
  (/\ last.op = "build"
   /\ last.error = NoError)
    => LET specification == last.atBuild
       IN /\ inSeq(specification.nonRelationalProperties,
                   specification.identifierProperty)
          /\ NoDuplicates(specification.nonRelationalProperties)
          /\ \A i \in 1..Len(specification.relationalProperties) :
               ~inSeq(specification.nonRelationalProperties,
                      specification.relationalProperties[i].name)

\* C18: the specification build() returned is not changed by a later call
\* on the builder: it holds what it held when build() returned.
C18_BuiltImmutable ==
  (/\ last.op \in {"as", "hasIdentifier", "has", "hasOne", "hasMany", "build"}
   /\ last.built)
    => returnedSpecification(last.builder) = last.atBuild

\* the full keys of the backend
PrefixedKeys == {keyPrefix \o k : k \in DriverKeys}

\* C19: loadAll(dump) writes exactly the entries of the dump whose key
\* starts with the prefix, replacing what the store held at those keys, and
\* leaves every other key of the store as it was.
C19_LoadAllFrame ==
  last.op = "loadAll"
    => LET written == DOMAIN last.data \cap PrefixedKeys
       IN /\ DOMAIN localStorage = DOMAIN last.before \cup written
          /\ \A k \in written : localStorage[k] = last.data[k]
          /\ \A k \in DOMAIN localStorage \ written :
               localStorage[k] = last.before[k]

\* a dump with a foreign entry loaded over a store that holds that foreign
\* key, one of the dump's keys and a key the dump does not hold
C19_Witness ==
  /\ last.op = "loadAll"
  /\ ForeignKey \in DOMAIN last.data
  /\ ForeignKey \in DOMAIN last.before
  /\ last.data[ForeignKey] # last.before[ForeignKey]
  /\ \E k \in DOMAIN last.data \cap PrefixedKeys :
       /\ k \in DOMAIN last.before
       /\ last.before[k] # last.data[k]
  /\ \E k \in PrefixedKeys : k \in DOMAIN last.before \ DOMAIN last.data

-----------------------------------------------------------------------------
\* C20: every create and update call terminates: once a call is made on an
\* entity object, its promise is settled at some later time, by a return or
\* by a failure, also when the populated relations of the objects refer back
\* to each other (an owner whose collection member carries that owner as its
\* singular related object).
C20_Terminates == Pending ~> (last.op = "cascade" /\ last.outcome # "pending")

-----------------------------------------------------------------------------
\* C21: after any sequence of create, update and delete calls, every
\* identifier of the address index whose stored foreign key personId is not
\* null is in exactly one relation-index bucket of the relation, the bucket
\* keyed by the stored value.
C21_OneBucket ==
  \A id \in Elements(IndexIds(localStorage, "Address")) :
    LET stored == StoredValue(localStorage, "Address", id, "personId")
    IN stored # Null
         => \A fkValue \in FkValues :
              inSeq(Bucket(localStorage, fkValue), id) <=> fkValue = stored

-----------------------------------------------------------------------------
\* the calls in the slots p and q are creates that have both returned
BothCreated(p, q) ==
  /\ p # q
  /\ callOf(p).op = "create" /\ callOf(p).outcome = "returned"
  /\ callOf(q).op = "create" /\ callOf(q).outcome = "returned"

\* the two addTableIndex calls read the same index, each before the other
\* wrote it
ReadBeforeTheOtherWrote(p, q) ==
  /\ callOf(p).index = callOf(q).index
  /\ callOf(p).readAt < callOf(q).wroteAt
  /\ callOf(q).readAt < callOf(p).wroteAt

\* C22: when two concurrent create calls for distinct identifiers of the
\* person table have read the same index in addTableIndex, each before the
\* other wrote it, both calls succeed and the index holds only one of the
\* two identifiers (the witness shows that such an interleaving exists).
C22_LostUpdate ==
  \A p, q \in Slots :
    (/\ BothCreated(p, q)
     /\ callOf(p).instance.id # callOf(q).instance.id
     /\ ReadBeforeTheOtherWrote(p, q))
      => ~(/\ inSeq(IndexIds(localStorage, "Person"), callOf(p).instance.id)
           /\ inSeq(IndexIds(localStorage, "Person"), callOf(q).instance.id))

C22_Witness ==
  /\ BothCreated(1, 2)
  /\ callOf(1).instance.id = Str("1")
  /\ callOf(2).instance.id = Str("2")
  /\ ReadBeforeTheOtherWrote(1, 2)
  /\ IndexIds(localStorage, "Person") = <<Str("2")>>

-----------------------------------------------------------------------------
\* the calls in the slots p and q have both ended and ran at the same time:
\* each started before the other ended
Overlapped(p, q) ==
  /\ p # q
  /\ callOf(p).outcome \in {"returned", "failed"}
  /\ callOf(q).outcome \in {"returned", "failed"}
  /\ callOf(p).startedAt < callOf(q).endedAt
  /\ callOf(q).startedAt < callOf(p).endedAt

\* C23: under any interleaving of concurrent create and delete calls, at
\* the boundaries of the store's reads and writes, the identifier index of
\* the person table never holds the same identifier twice.
C23_NoDuplicateUnderRaces == NoDuplicates(IndexIds(localStorage, "Person"))

C23_Witness ==
  /\ Overlapped(1, 2)
  /\ callOf(1).op = "create" /\ callOf(1).outcome = "returned"
  /\ callOf(2).op = "delete" /\ callOf(2).index # Undefined
  /\ callOf(1).readAt < callOf(2).endedAt
  /\ callOf(2).startedAt < callOf(1).wroteAt
  /\ Len(IndexIds(localStorage, "Person")) = 2

\* C24: of two concurrent create calls for the same identifier of the person
\* table at most one succeeds, under every interleaving; the other fails
\* with the duplicate-identifier error.
C24_AtMostOneCreates ==
  \A p, q \in Slots :
    (/\ Overlapped(p, q)
     /\ callOf(p).op = "create"
     /\ callOf(q).op = "create"
     /\ callOf(p).instance.id = callOf(q).instance.id)
      => \/ /\ callOf(p).outcome = "returned"
            /\ callOf(q).error = "Index constraint violation"
         \/ /\ callOf(q).outcome = "returned"
            /\ callOf(p).error = "Index constraint violation"
         \/ /\ callOf(p).error = "Index constraint violation"
            /\ callOf(q).error = "Index constraint violation"

-----------------------------------------------------------------------------
\* C25: a create that fails with the duplicate-identifier error leaves every
\* key of the store unchanged.
C25_FailedCreateKeepsStore ==
  (last.op = "create" /\ last.error = "Index constraint violation")
    => localStorage = last.before

\* the store holds an item for the scalar field of the row
HasRow(ls, class, id, property) ==
  (keyPrefix \o getDataKey(TableOf(class), id, property)) \in DOMAIN ls

\* C26: after any sequence of create, update and delete calls, every scalar
\* data key of the store belongs to an identifier of its table's identifier
\* index (no orphan rows).
C26_NoOrphanRows ==
  \A class \in Classes : \A id \in Ids : \A property \in ScalarFields(class) :
    HasRow(localStorage, class, id, property)
      => inSeq(IndexIds(localStorage, class), id)

\* C27: after any sequence of create, update and delete calls, every
\* identifier held in a relation-index bucket is in the identifier index of
\* the address table, and getById of a person with the collection included
\* never fails with the missing-id error.
C27_BucketsHoldIndexedIds ==
  /\ \A fkValue \in FkValues :
       \A id \in Elements(Bucket(localStorage, fkValue)) :
         inSeq(IndexIds(localStorage, "Address"), id)
  /\ (/\ last.op = "getById"
      /\ last.class = "Person"
      /\ last.includeMap # <<>>)
       => last.error # "One or more ids are missing"

-----------------------------------------------------------------------------
\* the last call was a successful create or update of an address that
\* carries its person as a populated related object
UpsertedWithPerson ==
  /\ last.op \in {"create", "update"}
  /\ last.class = "Address"
  /\ last.error = NoError
  /\ "person" \in DOMAIN last.instance

\* C28 as stated: after a successful create or update of an entity that
\* carries a populated Singular related object, the stored foreign key is the
\* identifier of the related object, whether or not the entity carried a
\* foreign key of its own.
C28_AnyForeignKey ==
  UpsertedWithPerson
    => StoredValue(localStorage, "Address", last.instance.id, "personId")
         = last.instance.person.id

\* C28: after a successful create or update of an entity that carries a
\* populated Singular related object, the stored foreign key is the foreign
\* key the entity carried, and the identifier of the related object when it
\* carried none; the entity is in the relation-index bucket of that value.
C28_StoredForeignKey ==
  UpsertedWithPerson
    => LET e == last.instance
           expected == IF Truthy(Prop(e, "personId"))
                         THEN e.personId ELSE e.person.id
       IN /\ StoredValue(localStorage, "Address", e.id, "personId") = expected
          /\ inSeq(Bucket(localStorage, expected), e.id)

C28_Witness ==
  /\ UpsertedWithPerson
  /\ last.op = "update"
  /\ Truthy(Prop(last.instance, "personId"))
  /\ last.instance.personId # last.instance.person.id
  /\ StoredValue(localStorage, "Address", last.instance.id, "personId")
       = last.instance.personId
  /\ inSeq(IndexIds(localStorage, "Person"), last.instance.person.id)

-----------------------------------------------------------------------------
\* the value read from a fetched record is an object, not null or undefined
IsObject(value) == ToString(value) \notin {ToString(Null), ToString(Undefined)}

\* C29: a fetch with a Singular relation included attaches a related object
\* only if the entity's stored foreign key is in the identifier index of the
\* target table.
C29_AttachesOnlyIndexedRows ==
  (/\ last.op = "getById"
   /\ last.class = "Address"
   /\ last.includeMap = include("person")
   /\ last.error = NoError)
    => LET related == ShadowGet(last.value, "person")
       IN (related.error = NoError /\ IsObject(related.value))
            => inSeq(IndexIds(localStorage, "Person"),
                     StoredValue(localStorage, "Address", last.id, "personId"))

-----------------------------------------------------------------------------
\* C30: delete(e) when e's identifier is not in the table index changes no
\* key of the store and raises no error; so a second delete(e) after a
\* delete(e) leaves the store as the first one left it.
C30_DeleteIdempotent ==
  last.op = "delete"
    => /\ ~inSeq(IndexIds(last.before, last.class), last.instance.id)
            => /\ localStorage = last.before
               /\ last.error = NoError
       /\ delete(localStorage, last.class, last.instance) = localStorage

C30_Witness ==
  /\ last.op = "delete"
  /\ last.class = "Person"
  /\ ~inSeq(IndexIds(last.before, "Person"), last.instance.id)
  /\ Len(Bucket(last.before, last.instance.id)) > 0
  /\ localStorage = last.before

-----------------------------------------------------------------------------
\* the raw item of the store under a key of the backend (null when none)
Item(ls, key) == getItem(ls, keyPrefix \o key)

\* the key of the relation-index bucket of a person value
BucketKey(fkValue) ==
  getRelationIndexKey("person", "address", "personId", fkValue)

\* C31: delete(owner) of a person removes no identifier from the address
\* index and no scalar key of an address; among the relation-index buckets
\* only the one keyed by the owner's identifier is deleted.
C31_ChildrenKept ==
  (last.op = "delete" /\ last.class = "Person")
    => /\ Item(localStorage, getTableIndexKey("address"))
            = Item(last.before, getTableIndexKey("address"))
       /\ \A id \in Ids : \A property \in ScalarFields("Address") :
            Item(localStorage, getDataKey("address", id, property))
              = Item(last.before, getDataKey("address", id, property))
       /\ \A fkValue \in FkValues \ {last.instance.id} :
            Item(localStorage, BucketKey(fkValue))
              = Item(last.before, BucketKey(fkValue))
       /\ inSeq(IndexIds(last.before, "Person"), last.instance.id)
            => (keyPrefix \o BucketKey(last.instance.id))
                 \notin DOMAIN localStorage

C31_Witness ==
  /\ last.op = "delete"
  /\ last.class = "Person"
  /\ inSeq(IndexIds(last.before, "Person"), last.instance.id)
  /\ Len(Bucket(last.before, last.instance.id)) > 0
  /\ Len(IndexIds(localStorage, "Address")) > 0
  /\ Len(IndexIds(localStorage, "Person")) > 0

-----------------------------------------------------------------------------
\* the last call was a create or an update of a person whose collection is
\* empty or absent
UpsertedWithoutMembers ==
  /\ last.op \in {"create", "update"}
  /\ last.class = "Person"
  /\ IF "address" \in DOMAIN last.instance
       THEN Len(last.instance.address) = 0 ELSE TRUE

\* C32: a create or update of a person whose address collection is empty or
\* absent changes no row of the address table and no relation-index bucket
\* of the relation.
C32_NothingCascaded ==
  UpsertedWithoutMembers
    => /\ Item(localStorage, getTableIndexKey("address"))
            = Item(last.before, getTableIndexKey("address"))
       /\ \A id \in Ids : \A property \in ScalarFields("Address") :
            Item(localStorage, getDataKey("address", id, property))
              = Item(last.before, getDataKey("address", id, property))
       /\ \A fkValue \in FkValues :
            Item(localStorage, BucketKey(fkValue))
              = Item(last.before, BucketKey(fkValue))

C32_Witness ==
  /\ UpsertedWithoutMembers
  /\ last.op = "update"
  /\ last.error = NoError
  /\ "address" \in DOMAIN last.instance
  /\ Len(Bucket(localStorage, last.instance.id)) > 0
  /\ inSeq(IndexIds(localStorage, "Person"), last.instance.id)

-----------------------------------------------------------------------------
\* the scalar fields the last update left out although the row held a value
\* for them
ClearedFields ==
  {f \in ScalarFields(last.class) \ DOMAIN last.instance :
     Truthy(StoredValue(last.before, last.class, last.instance.id, f))}

\* the last call was an update, with scalar fields only, of an indexed row
\* that leaves out a field the row held
UpdatedWithFieldLeftOut ==
  /\ last.op = "update"
  /\ last.error = NoError
  /\ DOMAIN last.instance \subseteq ScalarFields(last.class)
  /\ inSeq(IndexIds(last.before, last.class), last.instance.id)
  /\ ClearedFields # {}

\* C33: after an update that leaves out a scalar field f the row held, the
\* key of f holds the null marker, getById no longer returns the old value
\* of f, and every other scalar field read on the fetched record is the
\* value passed to update.
C33_UpdateClears ==
  UpdatedWithFieldLeftOut
    => LET got == getById(localStorage, last.class, last.instance.id, <<>>)
       IN /\ got.error = NoError
          /\ \A f \in ClearedFields :
               /\ Item(localStorage,
                       getDataKey(TableOf(last.class), last.instance.id, f))
                    = EmptyText
               /\ ShadowGet(got.value, f).value
                    # StoredValue(last.before, last.class, last.instance.id, f)
          /\ \A f \in DOMAIN last.instance :
               ShadowGet(got.value, f).value = last.instance[f]

-----------------------------------------------------------------------------
\* the populated related objects the cascade of the last create or update
\* reaches, as it passes them on: a collection member carries the owner's
\* identifier as its foreign key
ReachedObjects ==
  IF last.class = "Address"
    THEN IF "person" \in DOMAIN last.instance
           THEN {[class |-> "Person", object |-> last.instance.person]}
           ELSE {}
  ELSE IF "address" \in DOMAIN last.instance
    THEN {[class |-> "Address",
           object |-> Assign(last.instance.address[j], "personId",
                             last.instance.id)] :
            j \in 1..Len(last.instance.address)}
  ELSE {}

\* the last call was a create of a new row, or an update, whose cascade
\* reached an object that was already indexed
UpsertReachedIndexed(reached) ==
  /\ last.op \in {"create", "update"}
  /\ last.op = "create"
       => ~inSeq(IndexIds(last.before, last.class), last.instance.id)
  /\ reached \in ReachedObjects
  /\ \A other \in ReachedObjects : other.object.id = reached.object.id
                                      => other = reached
  /\ inSeq(IndexIds(last.before, reached.class), reached.object.id)

\* C34: a populated related object whose identifier is already indexed is
\* updated in place: the outer call does not fail with a duplicate
\* identifier, the identifiers indexed before keep their place in the related
\* table's index, which gains none when every reached object was indexed, and
\* the related row's scalar fields equal those of the passed object.
C34_UpdatedInPlace ==
  \A reached \in (IF last.op \in {"create", "update"}
                     THEN ReachedObjects ELSE {}) :
    UpsertReachedIndexed(reached)
      => /\ last.error # "Index constraint violation"
         /\ LET was == IndexIds(last.before, reached.class)
                 is == IndexIds(localStorage, reached.class)
            IN /\ Len(is) >= Len(was)
               /\ SubSeq(is, 1, Len(was)) = was
               /\ (\A other \in ReachedObjects : inSeq(was, other.object.id))
                    => is = was
         /\ \A f \in ScalarFields(reached.class) :
              StoredValue(localStorage, reached.class, reached.object.id, f)
                = (IF f \in DOMAIN reached.object
                     THEN reached.object[f] ELSE Null)

-----------------------------------------------------------------------------
\* the keys the repositories read: table indexes, relation-index buckets and
\* scalar fields
RepositoryKeys ==
  {getTableIndexKey(TableOf(class)) : class \in Classes}
    \cup {BucketKey(fkValue) : fkValue \in FkValues}
    \cup UNION {{getDataKey(TableOf(class), id, property) :
                   id \in Ids, property \in ScalarFields(class)} :
                class \in Classes}

\* C35: after a dump is taken, rows are created, updated and deleted, and
\* the dump is loaded, every read of a table index, a relation-index bucket
\* or a scalar field returns the value it had when the dump was taken.
C35_RestoreRoundTrip ==
  (last.op = "loadAll" /\ "taken" \in DOMAIN last)
    => \A key \in RepositoryKeys :
         read(localStorage, key) = read(last.taken, key)

-----------------------------------------------------------------------------
\* C36: at every store access boundary during a create, the identifier being
\* created, once it is in the table's identifier index, has every scalar
\* field key written, so that a fetch interleaved with the create finds the
\* whole row.
C36_IndexedRowsWritten ==
  last.op = "concurrent"
    => \A p \in Slots :
         (callOf(p).op = "create" /\ callOf(p).outcome = "pending"
            /\ inSeq(IndexIds(localStorage, "Person"), callOf(p).instance.id))
           => \A property \in ScalarFields("Person") :
                (keyPrefix \o getDataKey("person", callOf(p).instance.id,
                                         property))
                  \in DOMAIN localStorage

-----------------------------------------------------------------------------
\* C38: on a guarded view, a read of a field that was written succeeds and
\* returns the value last written, also when the field was guarded, and a
\* read of a guarded field that was not written still fails.
C38_WriteLiftsGuard ==
  (last.op = "get" /\ "guarded" \in DOMAIN last)
    => /\ last.prop \in DOMAIN last.written
            => /\ last.error = NoError
               /\ last.value = last.written[last.prop]
       /\ last.prop \in last.guarded \ DOMAIN last.written
            => last.error = "not loaded yet"

C38_Witness ==
  /\ last.op = "get"
  /\ "guarded" \in DOMAIN last
  /\ last.prop \in last.guarded \cap DOMAIN last.written
  /\ last.error = NoError
  /\ last.value = Arr(<<Str("1")>>)
  /\ \E other \in last.guarded \ DOMAIN last.written :
       ShadowGet(last.shadow, other).error = "not loaded yet"

-----------------------------------------------------------------------------
\* C37: resolving an include map terminates for every stored data set, also
\* with rows that point at each other: the fetches nested inside the
\* outermost one are never more than the include map is deep, and every
\* fetch that was started returns or throws.
C37_ResolveTerminates ==
  /\ [](last.op = "resolve" => Len(last.stack) <= 1 + MapDepth(last.map))
  /\ (Resolving ~> Settled)

C37_Witness ==
  /\ last.op = "resolve"
  /\ last.outcome = "returned"
  /\ MapDepth(last.map) = 3
  /\ last.deepest = 4
  /\ Bucket(localStorage, Str("1")) # <<>>
  /\ StoredValue(localStorage, "Address", Bucket(localStorage, Str("1"))[1],
                 "personId") = Str("1")

-----------------------------------------------------------------------------
\* C39: the relation-index key is injective: two different (source table,
\* destination table, foreign-key field, foreign-key value) tuples never
\* have the same key, identifiers that hold the delimiters included.
C39_KeyInjective ==
  (last.op = "getRelationIndexKey" /\ last.first # last.second)
    => last.firstKey # last.secondKey

====
